---- MODULE Spec2Model ----
(***************************************************************************)
(* Model of teric-io/.github: the contract scanner validate-contracts.js   *)
(* (src/unnamed/part_002, lines 100-433) and, later, the architecture      *)
(* extractor (src/scripts/architecture-extractor.mjs).                     *)
(*                                                                         *)
(* Text is modelled as a sequence of one-character strings, so that the    *)
(* regular expressions, String.includes, startsWith, endsWith, trim and    *)
(* split of the source are computed character by character.                *)
(***************************************************************************)
EXTENDS Integers, Sequences, FiniteSets, TLC

(***************************************************************************)
(* Strings                                                                 *)
(***************************************************************************)

\* The back-tick character U+0060, which a string literal of this language
\* cannot hold, under a name of its own.
BackTick == "BT"

\* The white space of JavaScript and line terminators, as far as the model's
\* alphabet goes (String.prototype.trim, and the white-space class of a regular expression).
WhiteSpace == {" ", "\t", "\n", "\r", "\f"}

\* Line terminators: the characters the dot does not match in a regular expression.
LineTerminators == {"\n", "\r"}

\* String.prototype.toUpperCase on the letters a-z; every other character of the
\* alphabet of the model is its own upper-case form.
ToUpperCase ==
  ("a" :> "A") @@ ("b" :> "B") @@ ("c" :> "C") @@ ("d" :> "D") @@ ("e" :> "E")
  @@ ("f" :> "F") @@ ("g" :> "G") @@ ("h" :> "H") @@ ("i" :> "I") @@ ("j" :>
  "J") @@ ("k" :> "K") @@ ("l" :> "L") @@ ("m" :> "M") @@ ("n" :> "N") @@ ("o"
  :> "O") @@ ("p" :> "P") @@ ("q" :> "Q") @@ ("r" :> "R") @@ ("s" :> "S") @@
  ("t" :> "T") @@ ("u" :> "U") @@ ("v" :> "V") @@ ("w" :> "W") @@ ("x" :> "X")
  @@ ("y" :> "Y") @@ ("z" :> "Z")

\* Canonicalize of a regular expression with the i flag: two characters match
\* when their upper-case forms are equal.
Canonicalize(ch) == IF ch \in DOMAIN ToUpperCase THEN ToUpperCase[ch] ELSE ch

\* String.prototype.startsWith
StartsWith(s, prefix) ==
  /\ Len(prefix) <= Len(s)
  /\ \A i \in 1..Len(prefix) : s[i] = prefix[i]

\* String.prototype.endsWith
EndsWith(s, suffix) ==
  /\ Len(suffix) <= Len(s)
  /\ \A i \in 1..Len(suffix) : s[Len(s) - Len(suffix) + i] = suffix[i]

\* String.prototype.includes
Includes(s, needle) ==
  \E k \in 0..(Len(s) - Len(needle)) :
    \A i \in 1..Len(needle) : s[k + i] = needle[i]

\* String.prototype.trim
Trim(s) ==
  LET keep == {i \in 1..Len(s) : s[i] \notin WhiteSpace}
  IN  IF keep = {} THEN <<>>
      ELSE LET first == CHOOSE i \in keep : \A j \in keep : i <= j
               last == CHOOSE i \in keep : \A j \in keep : j <= i
           IN  SubSeq(s, first, last)

\* String.prototype.substring(0, n)
Substring0(s, n) == SubSeq(s, 1, IF Len(s) < n THEN Len(s) ELSE n)

\* String.prototype.replace of a string searchValue by the empty string: the first
\* occurrence of searchValue is removed, and s is returned as it is when there is none.
ReplaceFirstWithEmpty(s, searchValue) ==
  IF ~Includes(s, searchValue) THEN s
  ELSE LET occ == {k \in 0..(Len(s) - Len(searchValue)) :
                     \A i \in 1..Len(searchValue) : s[k + i] = searchValue[i]}
           k0 == CHOOSE k \in occ : \A j \in occ : k <= j
       IN  SubSeq(s, 1, k0) \o SubSeq(s, k0 + Len(searchValue) + 1, Len(s))

\* String.prototype.split on the newline character
RECURSIVE SplitLines(_)
SplitLines(content) ==
  IF \A i \in 1..Len(content) : content[i] # "\n" THEN <<content>>
  ELSE LET nl == CHOOSE i \in 1..Len(content) :
                   /\ content[i] = "\n"
                   /\ \A j \in 1..(i - 1) : content[j] # "\n"
       IN  <<SubSeq(content, 1, nl - 1)>> \o SplitLines(SubSeq(content, nl + 1, Len(content)))

\* path.join for relative, already normal segments
JoinPath(dir, name) == IF dir = <<>> THEN name ELSE dir \o <<"/">> \o name

(***************************************************************************)
(* Regular expressions                                                     *)
(*                                                                         *)
(* A compiled expression is a sequence of elements [k, s]: k = one is      *)
(* one character of the set s, opt is X?, plus is X+, any is the dot.      *)
(* All expressions of the scanner carry the i flag, so s holds canonical   *)
(* (upper-case) characters and the subject is canonicalized on comparison. *)
(***************************************************************************)

One(set) == [k |-> "one", s |-> {Canonicalize(c) : c \in set}]

Opt(set) == [k |-> "opt", s |-> {Canonicalize(c) : c \in set}]

Plus(set) == [k |-> "plus", s |-> {Canonicalize(c) : c \in set}]

AnyChar == [k |-> "any", s |-> {}]

\* Does element e accept character ch?
Accepts(e, ch) ==
  IF e.k = "any" THEN ch \notin LineTerminators ELSE Canonicalize(ch) \in e.s

\* Backtracking match of re[pi..] against line, anchored at position li.
RECURSIVE MatchAt(_, _, _, _)
MatchAt(re, line, pi, li) ==
  IF pi > Len(re) THEN TRUE
  ELSE LET e == re[pi]
           here == li <= Len(line) /\ Accepts(e, line[li])
       IN  CASE e.k = "opt" ->
                  \/ here /\ MatchAt(re, line, pi + 1, li + 1)
                  \/ MatchAt(re, line, pi + 1, li)
             [] e.k = "plus" ->
                  /\ here
                  /\ \/ MatchAt(re, line, pi, li + 1)
                     \/ MatchAt(re, line, pi + 1, li + 1)
             [] OTHER ->
                  here /\ MatchAt(re, line, pi + 1, li + 1)

\* RegExp.prototype.test on an expression whose lastIndex is 0: is there a
\* match starting anywhere in the line?
RegexTest(re, line) == \E i \in 1..Len(line) : MatchAt(re, line, 1, i)

\* The text of a pattern interpolated into a regular expression source as it
\* is (no escaping): the dot is the wildcard, every other character of the known
\* names is an ordinary character.
CompileText(text) == [i \in 1..Len(text) |-> IF text[i] = "." THEN AnyChar ELSE One({text[i]})]

\* The character class of the three quote characters: single, double, back-tick
QuoteChars == {"'", "\"", BackTick}

\* The character class after the keyword: single quote, double quote, white space, colon
SeparatorChars == {"'", "\"", ":"} \cup WhiteSpace

(***************************************************************************)
(* Known pattern registry                                                  *)
(***************************************************************************)

KNOWN_TABLE_PATTERNS ==
  << \* teric-agentic-work-items
     <<"t","e","r","i","c","-","a","g","e","n","t","i","c","-","w","o","r","k","-","i","t","e","m","s">>,
     \* teric-agentic-initiatives
     <<"t","e","r","i","c","-","a","g","e","n","t","i","c","-","i","n","i","t","i","a","t","i","v","e","s">>,
     \* teric-agentic-code-reviews
     <<"t","e","r","i","c","-","a","g","e","n","t","i","c","-","c","o","d","e","-","r","e","v","i","e","w","s">>,
     \* teric-agentic-knowledge-facts
     <<"t","e","r","i","c","-","a","g","e","n","t","i","c","-","k","n","o","w","l","e","d","g","e","-","f","a","c","t","s">>,
     \* teric-agentic-e2e-test-runs
     <<"t","e","r","i","c","-","a","g","e","n","t","i","c","-","e","2","e","-","t","e","s","t","-","r","u","n","s">>,
     \* teric-agentic-e2e-consecutive-passes
     <<"t","e","r","i","c","-","a","g","e","n","t","i","c","-","e","2","e","-","c","o","n","s","e","c","u","t","i","v","e","-","p","a","s","s","e","s">>,
     \* teric-agentic-e2e-repository-registry
     <<"t","e","r","i","c","-","a","g","e","n","t","i","c","-","e","2","e","-","r","e","p","o","s","i","t","o","r","y","-","r","e","g","i","s","t","r","y">>,
     \* teric-agentic-workflows
     <<"t","e","r","i","c","-","a","g","e","n","t","i","c","-","w","o","r","k","f","l","o","w","s">>,
     \* teric-agentic-executions
     <<"t","e","r","i","c","-","a","g","e","n","t","i","c","-","e","x","e","c","u","t","i","o","n","s">>,
     \* teric-agentic-metrics
     <<"t","e","r","i","c","-","a","g","e","n","t","i","c","-","m","e","t","r","i","c","s">>,
     \* teric-agentic-contract-release-records
     <<"t","e","r","i","c","-","a","g","e","n","t","i","c","-","c","o","n","t","r","a","c","t","-","r","e","l","e","a","s","e","-","r","e","c","o","r","d","s">>,
     \* teric-agentic-crr-consumption-tokens
     <<"t","e","r","i","c","-","a","g","e","n","t","i","c","-","c","r","r","-","c","o","n","s","u","m","p","t","i","o","n","-","t","o","k","e","n","s">> >>

KNOWN_LAMBDA_PATTERNS ==
  << \* app-code-review
     <<"a","p","p","-","c","o","d","e","-","r","e","v","i","e","w">>,
     \* app-e2e-tester
     <<"a","p","p","-","e","2","e","-","t","e","s","t","e","r">>,
     \* app-planning-coordinator
     <<"a","p","p","-","p","l","a","n","n","i","n","g","-","c","o","o","r","d","i","n","a","t","o","r">>,
     \* app-infra-promoter
     <<"a","p","p","-","i","n","f","r","a","-","p","r","o","m","o","t","e","r">>,
     \* app-llm-advisor
     <<"a","p","p","-","l","l","m","-","a","d","v","i","s","o","r">>,
     \* mcp-work-coordinator
     <<"m","c","p","-","w","o","r","k","-","c","o","o","r","d","i","n","a","t","o","r">>,
     \* mcp-knowledge-graph
     <<"m","c","p","-","k","n","o","w","l","e","d","g","e","-","g","r","a","p","h">>,
     \* teric-orchestrator
     <<"t","e","r","i","c","-","o","r","c","h","e","s","t","r","a","t","o","r">> >>

KNOWN_EVENT_SOURCES ==
  << \* teric.orchestrator
     <<"t","e","r","i","c",".","o","r","c","h","e","s","t","r","a","t","o","r">>,
     \* teric.code-review
     <<"t","e","r","i","c",".","c","o","d","e","-","r","e","v","i","e","w">>,
     \* teric.e2e-tester
     <<"t","e","r","i","c",".","e","2","e","-","t","e","s","t","e","r">>,
     \* teric.planning
     <<"t","e","r","i","c",".","p","l","a","n","n","i","n","g">>,
     \* teric.infra-promoter
     <<"t","e","r","i","c",".","i","n","f","r","a","-","p","r","o","m","o","t","e","r">> >>

\* teric-agentic-
TablePrefix == <<"t","e","r","i","c","-","a","g","e","n","t","i","c","-">>

\* teric.
SourcePrefix == <<"t","e","r","i","c",".">>

\* FunctionName
FunctionNameKeyword == <<"F","u","n","c","t","i","o","n","N","a","m","e">>

\* Source
SourceKeyword == <<"S","o","u","r","c","e">>

(***************************************************************************)
(* scanFile                                                                *)
(***************************************************************************)

\* A field a JavaScript object does not carry.
Undefined == <<"undefined">>

\* A finding, as pushed by scanFile, validateDeclaredContracts and validate.
\* message holds the value interpolated into the message template.
Finding(type, severity, file, line, message, contract, snippet) ==
  [type |-> type, severity |-> severity, file |-> file, line |-> line,
   message |-> message, contract |-> contract, snippet |-> snippet]

RECURSIVE Flatten(_)
Flatten(ss) == IF ss = <<>> THEN <<>> ELSE Head(ss) \o Flatten(Tail(ss))

\* A table regex that leaves out the closing quote.
TableRegex_NoClosingQuote(tableName) ==
  <<One(QuoteChars)>>
  \o [i \in 1..Len(tableName) |->
        IF tableName[i] = "-" THEN Opt({"-"}) ELSE CompileText(<<tableName[i]>>)[1]]

\* A table regex whose optional separator is a hyphen or an underscore.
TableRegex_UnderscoreToo(tableName) ==
  <<One(QuoteChars)>>
  \o [i \in 1..Len(tableName) |->
        IF tableName[i] = "-" THEN Opt({"-", "_"}) ELSE CompileText(<<tableName[i]>>)[1]]
  \o <<One(QuoteChars)>>

\* The regex of the table-name check: a quote, the table name with every
\* hyphen replaced by an optional hyphen, a quote; flags g and i.
TableRegex(tableName) ==
  <<One(QuoteChars)>>
  \o [i \in 1..Len(tableName) |->
        IF tableName[i] = "-" THEN Opt({"-"}) ELSE CompileText(<<tableName[i]>>)[1]]
  \o <<One(QuoteChars)>>

\* An invokePattern that leaves out the keyword and the separators.
InvokePattern_NoKeyword(funcName) ==
  <<One(QuoteChars)>> \o CompileText(funcName) \o <<One(QuoteChars)>>

\* invokePattern: the keyword FunctionName, one or more separator characters,
\* a quote, the function name as it is, a quote; flag i.
InvokePattern(funcName) ==
  CompileText(FunctionNameKeyword) \o <<Plus(SeparatorChars), One(QuoteChars)>>
  \o CompileText(funcName) \o <<One(QuoteChars)>>

\* sourcePattern: the keyword Source, one or more separator characters,
\* a quote, the source as it is, a quote; flag i.
SourcePattern(source) ==
  CompileText(SourceKeyword) \o <<Plus(SeparatorChars), One(QuoteChars)>>
  \o CompileText(source) \o <<One(QuoteChars)>>

\* The three families of expressions, compiled once for every known name.
TableRegexes == [i \in 1..Len(KNOWN_TABLE_PATTERNS) |-> TableRegex(KNOWN_TABLE_PATTERNS[i])]

InvokePatterns == [i \in 1..Len(KNOWN_LAMBDA_PATTERNS) |-> InvokePattern(KNOWN_LAMBDA_PATTERNS[i])]

SourcePatterns == [i \in 1..Len(KNOWN_EVENT_SOURCES) |-> SourcePattern(KNOWN_EVENT_SOURCES[i])]

\* The path test of the table-name check.
TableSuppressed(filePath) ==
  \/ Includes(filePath, <<"/","c","o","n","t","r","a","c","t","s","/">>)
  \/ Includes(filePath, <<".","t","e","s","t",".">>)
  \/ Includes(filePath, <<".","s","p","e","c",".">>)
  \/ Includes(filePath, <<"_","_","t","e","s","t","s","_","_">>)

\* The path test of the function-name check.
LambdaSuppressed(filePath) ==
  \/ Includes(filePath, <<"/","c","o","n","t","r","a","c","t","s","/">>)
  \/ Includes(filePath, <<".","t","e","s","t",".">>)
  \/ Includes(filePath, <<".","s","p","e","c",".">>)

\* The path test of the event-source check.
SourceSuppressed(filePath) ==
  \/ Includes(filePath, <<"/","c","o","n","t","r","a","c","t","s","/">>)
  \/ Includes(filePath, <<".","t","e","s","t",".">>)
  \/ Includes(filePath, <<".","s","p","e","c",".">>)

\* A comment test that does not trim the line.
IsCommentLine_NoTrim(line) ==
  \/ StartsWith(line, <<"/","/">>)
  \/ StartsWith(line, <<"#">>)
  \/ StartsWith(line, <<"*">>)

\* The comment test at the head of the per-line callback.
IsCommentLine(line) ==
  \/ StartsWith(Trim(line), <<"/","/">>)
  \/ StartsWith(Trim(line), <<"#">>)
  \/ StartsWith(Trim(line), <<"*">>)

\* The snippet of a finding.
SnippetLength == 100

Snippet(line) == Substring0(Trim(line), SnippetLength)

\* KNOWN_TABLE_PATTERNS.forEach(...) on one line: the violations it pushes.
TableViolations(filePath, line, lineNum) ==
  Flatten([i \in 1..Len(KNOWN_TABLE_PATTERNS) |->
    LET tableName == KNOWN_TABLE_PATTERNS[i]
    IN  IF RegexTest(TableRegexes[i], line) /\ ~TableSuppressed(filePath)
        THEN <<Finding("hardcoded_table_name", "error", filePath, lineNum, tableName,
                       ReplaceFirstWithEmpty(tableName, TablePrefix), Snippet(line))>>
        ELSE <<>>])

\* KNOWN_LAMBDA_PATTERNS.forEach(...) on one line: the violations it pushes.
LambdaViolations(filePath, line, lineNum) ==
  Flatten([i \in 1..Len(KNOWN_LAMBDA_PATTERNS) |->
    LET funcName == KNOWN_LAMBDA_PATTERNS[i]
    IN  IF RegexTest(InvokePatterns[i], line) /\ ~LambdaSuppressed(filePath)
        THEN <<Finding("hardcoded_lambda_name", "error", filePath, lineNum, funcName,
                       funcName, Snippet(line))>>
        ELSE <<>>])

\* KNOWN_EVENT_SOURCES.forEach(...) on one line: the warnings it pushes.
SourceWarnings(filePath, line, lineNum) ==
  Flatten([i \in 1..Len(KNOWN_EVENT_SOURCES) |->
    LET source == KNOWN_EVENT_SOURCES[i]
    IN  IF RegexTest(SourcePatterns[i], line) /\ ~SourceSuppressed(filePath)
        THEN <<Finding("hardcoded_event_source", "warning", filePath, lineNum, source,
                       ReplaceFirstWithEmpty(source, SourcePrefix), Snippet(line))>>
        ELSE <<>>])

\* A scanner that files event sources under the violations as well.
LineViolations_WithSources(filePath, line, lineNum) ==
  IF IsCommentLine(line) THEN <<>>
  ELSE TableViolations(filePath, line, lineNum) \o LambdaViolations(filePath, line, lineNum)
       \o SourceWarnings(filePath, line, lineNum)

\* The callback of lines.forEach: what one line adds to violations and warnings.
LineViolations(filePath, line, lineNum) ==
  IF IsCommentLine(line) THEN <<>>
  ELSE TableViolations(filePath, line, lineNum) \o LambdaViolations(filePath, line, lineNum)

LineWarnings(filePath, line, lineNum) ==
  IF IsCommentLine(line) THEN <<>>
  ELSE SourceWarnings(filePath, line, lineNum)

\* A catch block whose finding does not name the file.
ScanError_Unnamed(filePath, reason) ==
  Finding("scan_error", "warning", Undefined, 0, reason, Undefined, Undefined)

\* A catch block that gives its finding the severity of a violation.
ScanError_AsError(filePath, reason) ==
  Finding("scan_error", "error", filePath, 0, reason, Undefined, Undefined)

\* The warning of the catch block; message is error.message of the failed read.
ScanError(filePath, reason) ==
  Finding("scan_error", "warning", filePath, 0, reason, Undefined, Undefined)

\* A scanFile that runs each check over all the lines in turn, instead of all
\* the checks over each line.
scanFile_CheckByCheck(filePath, file) ==
  IF ~file.readable
  THEN [violations |-> <<>>, warnings |-> <<ScanError(filePath, file.content)>>]
  ELSE LET lines == SplitLines(file.content)
           live(i) == ~IsCommentLine(lines[i])
       IN  [violations |->
              Flatten([i \in 1..Len(lines) |->
                IF live(i) THEN TableViolations(filePath, lines[i], i) ELSE <<>>])
              \o Flatten([i \in 1..Len(lines) |->
                IF live(i) THEN LambdaViolations(filePath, lines[i], i) ELSE <<>>]),
            warnings |->
              Flatten([i \in 1..Len(lines) |-> LineWarnings(filePath, lines[i], i)])]

\* scanFile(filePath, contracts) on a file [readable, content]: readFileSync
\* throws on an unreadable file, which the catch block turns into a warning.
scanFile(filePath, file) ==
  IF ~file.readable
  THEN [violations |-> <<>>, warnings |-> <<ScanError(filePath, file.content)>>]
  ELSE LET lines == SplitLines(file.content)
       IN  [violations |->
              Flatten([i \in 1..Len(lines) |-> LineViolations(filePath, lines[i], i)]),
            warnings |->
              Flatten([i \in 1..Len(lines) |-> LineWarnings(filePath, lines[i], i)])]

(***************************************************************************)
(* The working directory                                                   *)
(*                                                                         *)
(* Nodes lists the entries a working directory of the model may hold, in   *)
(* the order readdirSync returns them; parent 0 is the working directory   *)
(* itself.  A state holds some of the files (and with them the directories *)
(* above them); may names the states the model lets a file be in.          *)
(***************************************************************************)

Nodes ==
  << [parent |-> 0, kind |-> "dir",  name |-> <<"s","r","c">>, may |-> {}],
     [parent |-> 1, kind |-> "file", name |-> <<"h","a","n","d","l","e","r",".","t","s">>, may |-> {"clean", "table", "mixed", "unreadable"}],
     [parent |-> 1, kind |-> "file", name |-> <<"h","a","n","d","l","e","r",".","t","e","s","t",".","t","s">>, may |-> {"table"}],
     [parent |-> 1, kind |-> "dir",  name |-> <<"c","o","n","t","r","a","c","t","s">>, may |-> {}],
     [parent |-> 4, kind |-> "file", name |-> <<"t","a","b","l","e","s",".","t","s">>, may |-> {"mixed"}],
     [parent |-> 1, kind |-> "dir",  name |-> <<"_","_","t","e","s","t","s","_","_">>, may |-> {}],
     [parent |-> 6, kind |-> "file", name |-> <<"i","n","v","o","k","e",".","t","s">>, may |-> {"invoke"}],
     [parent |-> 1, kind |-> "dir",  name |-> <<"n","o","d","e","_","m","o","d","u","l","e","s">>, may |-> {}],
     [parent |-> 8, kind |-> "file", name |-> <<"d","e","p",".","j","s">>, may |-> {"table"}],
     [parent |-> 1, kind |-> "file", name |-> <<"n","o","t","e","s",".","m","d">>, may |-> {"table"}],
     [parent |-> 0, kind |-> "dir",  name |-> <<"l","i","b">>, may |-> {}],
     [parent |-> 11, kind |-> "file", name |-> <<"e","v","e","n","t","s",".","j","s","x">>, may |-> {"event", "invoke"}],
     [parent |-> 0, kind |-> "file", name |-> <<"h","a","n","d","l","e","r","s">>, may |-> {"clean"}],
     [parent |-> 0, kind |-> "file", name |-> <<"i","n","d","e","x",".","j","s">>, may |-> {"event", "unreadable"}],
     [parent |-> 0, kind |-> "file", name |-> <<"j","e","s","t",".","c","o","n","f","i","g",".","j","s">>, may |-> {"table"}],
     [parent |-> 0, kind |-> "file", name |-> <<"s","e","t","u","p",".","t","e","s","t",".","j","s">>, may |-> {"table"}],
     [parent |-> 11, kind |-> "dir",  name |-> <<"u","t","i","l">>, may |-> {}],
     [parent |-> 17, kind |-> "dir",  name |-> <<"b","u","i","l","d">>, may |-> {}],
     [parent |-> 18, kind |-> "file", name |-> <<"g","e","n",".","t","s">>, may |-> {"table"}] >>

NodeIds == 1..Len(Nodes)

FileNodes == {n \in NodeIds : Nodes[n].kind = "file"}

\* path.join of the names from the working directory down to node n
RECURSIVE PathOf(_)
PathOf(n) == IF n = 0 THEN <<>> ELSE JoinPath(PathOf(Nodes[n].parent), Nodes[n].name)

\* PathOf, computed once for every node
Paths == [n \in NodeIds |-> PathOf(n)]

RECURSIVE IsAncestor(_, _)
IsAncestor(d, n) ==
  /\ n # 0
  /\ Nodes[n].parent # 0
  /\ (Nodes[n].parent = d \/ IsAncestor(d, Nodes[n].parent))

\* The texts a file of the model may hold.
CleanText == <<"c","o","n","s","t"," ","t","a","b","l","e","N","a","m","e"," ","="," ","W","o","r","k","I","t","e","m","s","T","a","b","l","e",".","n","a","m","e",";">>

TableText == <<"\n","c","o","n","s","t"," ","t","a","b","l","e","N","a","m","e"," ","="," ","'","t","e","r","i","c","-","a","g","e","n","t","i","c","-","w","o","r","k","-","i","t","e","m","s","'",";","\n"," "," ","r","e","t","u","r","n"," ","{"," ","s","t","a","t","u","s","C","o","d","e",":"," ","2","0","0"," ","}",";","\n">>

InvokeText == <<" "," ","c","o","n","s","t"," ","p","a","r","a","m","s"," ","="," ","{","\n"," "," "," "," ","F","u","n","c","t","i","o","n","N","a","m","e",":"," ","'","a","p","p","-","c","o","d","e","-","r","e","v","i","e","w","'",","," ","T","a","b","l","e","N","a","m","e",":"," ","\"","t","e","r","i","c","-","a","g","e","n","t","i","c","-","m","e","t","r","i","c","s","\"",",","\n"," "," ","/","/"," ","F","u","n","c","t","i","o","n","N","a","m","e",":"," ","'","a","p","p","-","e","2","e","-","t","e","s","t","e","r","'","\n"," "," ","}",";">>

EventText == <<"e","x","p","o","r","t"," ","c","o","n","s","t"," ","e","v","e","n","t"," ","="," ","{","\n"," "," ","S","o","u","r","c","e",":"," ","'","t","e","r","i","c",".","o","r","c","h","e","s","t","r","a","t","o","r","'",",","\n"," "," ","D","e","t","a","i","l","T","y","p","e",":"," ","'","W","o","r","k","I","t","e","m","C","o","m","p","l","e","t","e","d","'","\n","}",";">>

MixedText == <<" "," ","S","o","u","r","c","e",":"," ","\"","t","e","r","i","c",".","p","l","a","n","n","i","n","g","\"",","," ","F","u","n","c","t","i","o","n","N","a","m","e",":"," ",BackTick,"m","c","p","-","k","n","o","w","l","e","d","g","e","-","g","r","a","p","h",BackTick,"\n","#"," ","'","t","e","r","i","c","-","a","g","e","n","t","i","c","-","w","o","r","k","f","l","o","w","s","'","\n","c","o","n","s","t"," ","t"," ","="," ","[","'","t","e","r","i","c","-","a","g","e","n","t","i","c","-","e","x","e","c","u","t","i","o","n","s","'",","," ","'","t","e","r","i","c","-","a","g","e","n","t","i","c","-","e","x","e","c","u","t","i","o","n","s","'",","," ","'","t","e","r","i","c","a","g","e","n","t","i","c","-","e","2","e","-","t","e","s","t","-","r","u","n","s","'","]",";">>

\* error.message of a read that fails
ReadFailure == <<"EACCES: permission denied">>

\* The state of a present file under each name of may: its text, or unreadable.
FileState(s) ==
  CASE s = "clean" -> [readable |-> TRUE, content |-> CleanText]
    [] s = "table" -> [readable |-> TRUE, content |-> TableText]
    [] s = "invoke" -> [readable |-> TRUE, content |-> InvokeText]
    [] s = "event" -> [readable |-> TRUE, content |-> EventText]
    [] s = "mixed" -> [readable |-> TRUE, content |-> MixedText]
    [] s = "unreadable" -> [readable |-> FALSE, content |-> ReadFailure]

(***************************************************************************)
(* The state of one run of validate-contracts.js                           *)
(***************************************************************************)

VARIABLES
  disk,          \* the working directory: present file node -> [readable, content]
  configFile,    \* the configuration file: [exists, doc]
  resolvable,    \* whether require.resolve finds the contracts package
  advisoryMode,  \* the --advisory flag
  pc,            \* the position of validate()
  contracts,     \* the value parseContractsFile returned
  sourceFiles,   \* the paths validate() collected
  next,          \* the index in sourceFiles of the next file to scan
  result,        \* the report under construction
  stdout,        \* the reports written to standard output
  exitCode,      \* the exit code of the process, once pc is done or crashed
  env,           \* architecture-extractor.mjs: process.env, as far as the script reads it
  repo,          \* the source repository: [exists, tree], tree: present file node -> [readable, content]
  schemaFile,    \* what SCHEMA_PATH names: absent, file or directory
  existingFile,  \* whether EXISTING_COMPONENT_PATH names a file
  step,          \* the position of the script
  prompt,        \* the prompt main() built
  apiCalls,      \* the number of calls of client.messages.create
  yamlOutput,    \* the model output, as main() holds it
  componentOutput, \* component-output.yaml in the current working directory
  status,        \* the exit code of the script, once step is exited
  pattern,       \* a call of grepInSrc: its first argument
  maxMatches,    \* its second argument
  matches        \* what the call returned

\* The state of one run of validate-contracts.js
validatorVars == <<disk, configFile, resolvable, advisoryMode, pc, contracts, sourceFiles,
                   next, result, stdout, exitCode>>

\* The state of one run of architecture-extractor.mjs, and of one call of grepInSrc
extractorVars == <<env, repo, schemaFile, existingFile, step, prompt, apiCalls, yamlOutput, componentOutput, status,
                   pattern, maxMatches, matches>>

vars == <<validatorVars, extractorVars>>

\* architecture-extractor.mjs is not run
ExtractorOff ==
  /\ env = Undefined
  /\ repo = Undefined
  /\ schemaFile = Undefined
  /\ existingFile = Undefined
  /\ step = "off"
  /\ prompt = Undefined
  /\ apiCalls = 0
  /\ yamlOutput = Undefined
  /\ componentOutput = Undefined
  /\ status = 0
  /\ pattern = Undefined
  /\ maxMatches = Undefined
  /\ matches = Undefined

(***************************************************************************)
(* fs                                                                      *)
(***************************************************************************)

\* Is node n on the disk d? A directory is there when a file below it is.
Present(d, n) ==
  IF Nodes[n].kind = "file" THEN n \in DOMAIN d
  ELSE \E f \in DOMAIN d : IsAncestor(n, f)

\* fs.readdirSync(dir): the present entries of directory node dir (0: the
\* working directory), in directory order.
ReadDir(d, dir) ==
  SelectSeq([i \in NodeIds |-> i], LAMBDA n : Nodes[n].parent = dir /\ Present(d, n))

\* The present node a relative path names, 0 when there is none (fs.existsSync
\* is false).
Lookup(d, path) ==
  IF \E n \in NodeIds : Paths[n] = path /\ Present(d, n)
  THEN CHOOSE n \in NodeIds : Paths[n] = path /\ Present(d, n)
  ELSE 0

\* fs.readFileSync(path, utf8): the text, or the failure it throws
ReadFileSync(d, path) ==
  LET n == Lookup(d, path)
  IN  IF n = 0 THEN [readable |-> FALSE, content |-> <<"ENOENT: no such file or directory">>]
      ELSE IF Nodes[n].kind = "dir"
      THEN [readable |-> FALSE, content |-> <<"EISDIR: illegal operation on a directory">>]
      ELSE d[n]

(***************************************************************************)
(* getSourceFiles                                                          *)
(***************************************************************************)

\* The default of the extensions parameter
Extensions == <<<<".","t","s">>, <<".","j","s">>, <<".","t","s","x">>, <<".","j","s","x">>>>

\* A deny-list without build.
SkippedDirectories_WithoutBuild ==
  {<<"n","o","d","e","_","m","o","d","u","l","e","s">>, <<"d","i","s","t">>, <<".","g","i","t">>, <<"c","o","v","e","r","a","g","e">>, <<".","n","e","x","t">>, <<".","c","a","c","h","e">>}

\* The directories the walk does not enter
SkippedDirectories ==
  {<<"n","o","d","e","_","m","o","d","u","l","e","s">>, <<"d","i","s","t">>, <<"b","u","i","l","d">>, <<".","g","i","t">>, <<"c","o","v","e","r","a","g","e">>, <<".","n","e","x","t">>, <<".","c","a","c","h","e">>}

HasExtension(name) == \E i \in 1..Len(Extensions) : EndsWith(name, Extensions[i])

\* The loop of getSourceFiles over the entries of directory node dir.
RECURSIVE WalkDirectory(_, _)
WalkDirectory(d, dir) ==
  LET items == ReadDir(d, dir)
  IN  Flatten([i \in 1..Len(items) |->
        LET item == Nodes[items[i]]
        IN  IF item.kind = "dir" /\ item.name \notin SkippedDirectories
            THEN WalkDirectory(d, items[i])
            ELSE IF item.kind = "file" /\ HasExtension(item.name)
            THEN <<Paths[items[i]]>>
            ELSE <<>>])

\* getSourceFiles(dir) for a path of the working directory: no file when the
\* path does not exist, and readdirSync throws when it names a file.
getSourceFiles(d, dir) ==
  LET n == Lookup(d, dir)
  IN  IF n = 0 THEN [threw |-> FALSE, files |-> <<>>]
      ELSE IF Nodes[n].kind # "dir" THEN [threw |-> TRUE, files |-> <<>>]
      ELSE [threw |-> FALSE, files |-> WalkDirectory(d, n)]

(***************************************************************************)
(* validateDeclaredContracts and parseContractsFile                        *)
(***************************************************************************)

\* The values yaml.load may return, as far as validate() reads them: t is the
\* JavaScript type, error the value of the key error, tables the value of
\* dynamodb.tables (NoTables also when dynamodb is missing or null).
\* The values of dynamodb.tables: missing, an array of declared tables, or a
\* value that is not iterable (a number, a mapping).
NoTables == [t |-> "undefined", items |-> <<>>]

TableList(items) == [t |-> "array", items |-> items]

NotIterable == [t |-> "number", items |-> <<>>]

JsUndefined == [t |-> "undefined", error |-> Undefined, tables |-> NoTables]

JsNull == [t |-> "null", error |-> Undefined, tables |-> NoTables]

JsScalar == [t |-> "string", error |-> Undefined, tables |-> NoTables]

JsObject(error, tables) == [t |-> "object", error |-> error, tables |-> tables]

\* A declared table: null, or a mapping whose contract is missing, a number
\* or a string.
NullTable == [t |-> "null", contract |-> Undefined]

Table(contract) == [t |-> "object", contract |-> contract]

NumberContract == <<"number 7">>

ValidContract == <<"@","t","e","r","i","c","/","c","o","n","t","r","a","c","t","s","/","d","y","n","a","m","o","d","b","/","w","o","r","k","-","i","t","e","m","s">>

InvalidContract == <<"@","t","e","r","i","c","-","i","o","/","c","o","n","t","r","a","c","t","s","/","d","y","n","a","m","o","d","b","/","w","o","r","k","-","i","t","e","m","s">>

ContractsNamespace == <<"@","t","e","r","i","c","/","c","o","n","t","r","a","c","t","s","/">>

\* JavaScript truthiness of the values above: undefined and the empty string
\* are falsy.
Truthy(v) == v # Undefined /\ v # <<>>

\* The warning pushed when the package is missing
PackageNotInstalled ==
  Finding("package_not_installed", "warning", Undefined, 0, Undefined, Undefined, Undefined)

\* The warning pushed for a declared contract outside the namespace
InvalidContractPath(contract) ==
  Finding("invalid_contract_path", "warning", Undefined, 0, contract, Undefined, Undefined)

\* Does the loop over contracts.dynamodb.tables throw a TypeError? It does on
\* a value that is not iterable, on a null element (table.contract), and on a
\* truthy contract that is no string (startsWith is not a function).
TablesThrow(tables) ==
  \/ tables.t = "number"
  \/ \E i \in 1..Len(tables.items) :
       \/ tables.items[i].t = "null"
       \/ tables.items[i].contract = NumberContract

\* A validateDeclaredContracts that reads the declared tables before it looks
\* for the package.
validateDeclaredContracts_TablesFirst(c, found) ==
  IF c.tables.t # "undefined" /\ TablesThrow(c.tables)
  THEN [threw |-> TRUE, warnings |-> <<>>]
  ELSE IF ~found THEN [threw |-> FALSE, warnings |-> <<PackageNotInstalled>>]
  ELSE [threw |-> FALSE,
        warnings |-> Flatten([i \in 1..Len(c.tables.items) |->
          IF Truthy(c.tables.items[i].contract)
             /\ ~StartsWith(c.tables.items[i].contract, ContractsNamespace)
          THEN <<InvalidContractPath(c.tables.items[i].contract)>>
          ELSE <<>>])]

\* validateDeclaredContracts(contracts): the warnings it returns, or threw.
validateDeclaredContracts(c, found) ==
  IF ~found THEN [threw |-> FALSE, warnings |-> <<PackageNotInstalled>>]
  ELSE IF c.tables.t = "undefined" THEN [threw |-> FALSE, warnings |-> <<>>]
  ELSE IF TablesThrow(c.tables) THEN [threw |-> TRUE, warnings |-> <<>>]
  ELSE [threw |-> FALSE,
        warnings |-> Flatten([i \in 1..Len(c.tables.items) |->
          IF Truthy(c.tables.items[i].contract)
             /\ ~StartsWith(c.tables.items[i].contract, ContractsNamespace)
          THEN <<InvalidContractPath(c.tables.items[i].contract)>>
          ELSE <<>>])]

\* The messages of parseContractsFile
ConfigNotFound == <<"Config file not found">>

ConfigParseFailure == <<"Failed to parse config">>

\* A configuration file whose text yaml.load (or readFileSync) throws on
Unparseable == [t |-> "throws", error |-> Undefined, tables |-> NoTables]

\* A parser that takes a missing configuration file for an empty mapping.
parseContractsFile_MissingAsEmpty(file) ==
  IF ~file.exists THEN JsObject(Undefined, NoTables)
  ELSE IF file.doc = Unparseable THEN JsObject(ConfigParseFailure, NoTables)
  ELSE file.doc

\* parseContractsFile(configPath)
parseContractsFile(file) ==
  IF ~file.exists THEN JsObject(ConfigNotFound, NoTables)
  ELSE IF file.doc = Unparseable THEN JsObject(ConfigParseFailure, NoTables)
  ELSE file.doc

(***************************************************************************)
(* validate                                                                *)
(***************************************************************************)

\* scanFile on every file of Nodes in each state of its may, computed once
ScanTable ==
  [n \in FileNodes |-> [s \in Nodes[n].may |-> scanFile(Paths[n], FileState(s))]]

\* scanFile(filePath, contracts) on the disk d: read from ScanTable when the
\* file is in a state of its may, and computed otherwise
ScanOnDisk(d, filePath) ==
  LET n == Lookup(d, filePath)
      file == ReadFileSync(d, filePath)
  IN  IF n # 0 /\ \E s \in Nodes[n].may : FileState(s) = file
      THEN ScanTable[n][CHOOSE s \in Nodes[n].may : FileState(s) = file]
      ELSE scanFile(filePath, file)

\* const srcDirs
SrcDirs == <<<<"s","r","c">>, <<"l","i","b">>, <<"h","a","n","d","l","e","r","s">>, <<"s","e","r","v","i","c","e","s">>, <<"c","o","m","p","o","n","e","n","t","s">>>>

\* The filter on the names readdirSync returns for the working directory
IsRootSource(name) ==
  /\ EndsWith(name, <<".","t","s">>) \/ EndsWith(name, <<".","j","s">>)
  /\ ~Includes(name, <<".","c","o","n","f","i","g">>)
  /\ ~Includes(name, <<".","t","e","s","t">>)

\* rootFiles: names of the working directory that pass the filter
RootFiles(d) ==
  LET items == ReadDir(d, 0)
  IN  Flatten([i \in 1..Len(items) |->
        IF IsRootSource(Nodes[items[i]].name) THEN <<Nodes[items[i]].name>> ELSE <<>>])

\* The collection of sourceFiles: getSourceFiles over srcDirs, then rootFiles;
\* threw when one of the calls throws.
CollectSourceFiles(d) ==
  LET each == [i \in 1..Len(SrcDirs) |-> getSourceFiles(d, SrcDirs[i])]
  IN  [threw |-> \E i \in 1..Len(SrcDirs) : each[i].threw,
       files |-> Flatten([i \in 1..Len(SrcDirs) |-> each[i].files]) \o RootFiles(d)]

\* A short-circuit warning that carries the time of the run as its line.
ConfigError_Stamped(message) ==
  Finding("config_error", "warning", Undefined, result.metadata.timestamp, message,
          Undefined, Undefined)

\* The warning of the short-circuit
ConfigError(message) ==
  Finding("config_error", "warning", Undefined, 0, message, Undefined, Undefined)

\* A result object that starts out as failed.
InitialResult_Failed(advisory, now) ==
  [passed |-> FALSE,
   violations |-> <<>>,
   warnings |-> <<>>,
   summary |-> [total |-> 0, errors |-> 0, warnings |-> 0, filesScanned |-> 0],
   metadata |-> [advisoryMode |-> advisory, timestamp |-> now, version |-> <<"1.0.0">>]]

\* The result object validate() starts from; now is the reading of the clock,
\* which the model takes to be the number of the run. metadata.configFile,
\* the path given on the command line, is left out.
InitialResult(advisory, now) ==
  [passed |-> TRUE,
   violations |-> <<>>,
   warnings |-> <<>>,
   summary |-> [total |-> 0, errors |-> 0, warnings |-> 0, filesScanned |-> 0],
   metadata |-> [advisoryMode |-> advisory, timestamp |-> now, version |-> <<"1.0.0">>]]

\* A Node.js process that an uncaught exception ends exits with code 1.

\* const contracts = parseContractsFile(configFile)
ParseContracts ==
  /\ pc = "start"
  /\ contracts' = parseContractsFile(configFile)
  /\ pc' = "parsed"
  /\ UNCHANGED <<extractorVars, disk, configFile, resolvable, advisoryMode, sourceFiles, next,
                 result, stdout, exitCode>>

\* if (contracts.error) on undefined or null: a TypeError nothing catches
ThrowOnNoDocument ==
  /\ pc = "parsed"
  /\ contracts.t \in {"undefined", "null"}
  /\ pc' = "crashed"
  /\ exitCode' = 1
  /\ UNCHANGED <<extractorVars, disk, configFile, resolvable, advisoryMode, contracts, sourceFiles,
                 next, result, stdout>>

\* if (contracts.error) { push config_error; console.log; return }
ConfigErrorExit ==
  /\ pc = "parsed"
  /\ contracts.t \notin {"undefined", "null"}
  /\ Truthy(contracts.error)
  /\ result' = [result EXCEPT !.warnings = Append(@, ConfigError(contracts.error))]
  /\ stdout' = Append(stdout, result')
  /\ pc' = "done"
  /\ exitCode' = 0
  /\ UNCHANGED <<extractorVars, disk, configFile, resolvable, advisoryMode, contracts, sourceFiles,
                 next>>

\* result.warnings.push(...validateDeclaredContracts(contracts))
ValidateDeclared ==
  /\ pc = "parsed"
  /\ contracts.t \notin {"undefined", "null"}
  /\ ~Truthy(contracts.error)
  /\ LET declared == validateDeclaredContracts(contracts, resolvable)
     IN  IF declared.threw
         THEN /\ pc' = "crashed"
              /\ exitCode' = 1
              /\ UNCHANGED result
         ELSE /\ pc' = "collect"
              /\ result' = [result EXCEPT !.warnings = @ \o declared.warnings]
              /\ UNCHANGED exitCode
  /\ UNCHANGED <<extractorVars, disk, configFile, resolvable, advisoryMode, contracts, sourceFiles,
                 next, stdout>>

\* The two loops that fill sourceFiles, and result.summary.filesScanned
CollectSources ==
  /\ pc = "collect"
  /\ LET collected == CollectSourceFiles(disk)
     IN  IF collected.threw
         THEN /\ pc' = "crashed"
              /\ exitCode' = 1
              /\ UNCHANGED <<sourceFiles, result>>
         ELSE /\ pc' = "scan"
              /\ sourceFiles' = collected.files
              /\ result' = [result EXCEPT !.summary.filesScanned = Len(collected.files)]
              /\ UNCHANGED exitCode
  /\ UNCHANGED <<extractorVars, disk, configFile, resolvable, advisoryMode, contracts, next, stdout>>

\* One iteration of for (const filePath of sourceFiles)
ScanNextFile ==
  /\ pc = "scan"
  /\ next <= Len(sourceFiles)
  /\ LET filePath == sourceFiles[next]
         scanned == ScanOnDisk(disk, filePath)
     IN  result' = [result EXCEPT !.violations = @ \o scanned.violations,
                                  !.warnings = @ \o scanned.warnings]
  /\ next' = next + 1
  /\ UNCHANGED <<extractorVars, disk, configFile, resolvable, advisoryMode, pc, contracts,
                 sourceFiles, stdout, exitCode>>

\* A report whose passed ignores the advisory flag.
Report_IgnoresAdvisory ==
  /\ pc = "scan"
  /\ next > Len(sourceFiles)
  /\ LET errors == Len(result.violations)
         warnings == Len(result.warnings)
     IN  result' = [result EXCEPT !.summary.errors = errors,
                                  !.summary.warnings = warnings,
                                  !.summary.total = errors + warnings,
                                  !.passed = (errors = 0)]
  /\ stdout' = Append(stdout, result')
  /\ exitCode' = IF ~advisoryMode /\ Len(result.violations) > 0 THEN 1 ELSE 0
  /\ pc' = "done"
  /\ UNCHANGED <<extractorVars, disk, configFile, resolvable, advisoryMode, contracts, sourceFiles,
                 next>>

\* The summary, passed, console.log and the exit code
Report ==
  /\ pc = "scan"
  /\ next > Len(sourceFiles)
  /\ LET errors == Len(result.violations)
         warnings == Len(result.warnings)
     IN  result' = [result EXCEPT !.summary.errors = errors,
                                  !.summary.warnings = warnings,
                                  !.summary.total = errors + warnings,
                                  !.passed = IF errors > 0 THEN advisoryMode ELSE @]
  /\ stdout' = Append(stdout, result')
  /\ exitCode' = IF ~advisoryMode /\ Len(result.violations) > 0 THEN 1 ELSE 0
  /\ pc' = "done"
  /\ UNCHANGED <<extractorVars, disk, configFile, resolvable, advisoryMode, contracts, sourceFiles,
                 next>>

(***************************************************************************)
(* The runs of the model                                                   *)
(***************************************************************************)

\* The most files a working directory of the model holds
MaxFiles == 2

\* The working directories: at most MaxFiles files, each in a state of its may
Disks ==
  UNION {{[n \in S |-> FileState(c[n])] :
            c \in {e \in [S -> UNION {Nodes[n].may : n \in S}] : \A n \in S : e[n] \in Nodes[n].may}} :
           S \in {T \in SUBSET FileNodes : Cardinality(T) <= MaxFiles}}

\* The documents a configuration file may parse to
Documents ==
  {Unparseable, JsUndefined, JsNull, JsScalar,
   JsObject(Undefined, NoTables),
   JsObject(<<"an error key">>, NoTables),
   JsObject(Undefined, NotIterable),
   JsObject(Undefined, TableList(<<Table(ValidContract)>>)),
   JsObject(Undefined, TableList(<<Table(InvalidContract)>>)),
   JsObject(Undefined, TableList(<<Table(ValidContract), Table(InvalidContract), Table(Undefined)>>)),
   JsObject(Undefined, TableList(<<NullTable>>)),
   JsObject(Undefined, TableList(<<Table(NumberContract)>>))}

ConfigFiles ==
  {[exists |-> FALSE, doc |-> JsUndefined]} \cup {[exists |-> TRUE, doc |-> doc] : doc \in Documents}

Init ==
  /\ disk \in Disks
  /\ configFile \in ConfigFiles
  /\ resolvable \in BOOLEAN
  /\ advisoryMode \in BOOLEAN
  /\ pc = "start"
  /\ contracts = JsUndefined
  /\ sourceFiles = <<>>
  /\ next = 1
  /\ result = InitialResult(advisoryMode, 1)
  /\ stdout = <<>>
  /\ exitCode = 0
  /\ ExtractorOff

Next ==
  \/ ParseContracts
  \/ ThrowOnNoDocument
  \/ ConfigErrorExit
  \/ ValidateDeclared
  \/ CollectSources
  \/ ScanNextFile
  \/ Report

Spec == Init /\ [][Next]_vars

(***************************************************************************)
(* Runs of the script one after the other, on the same working directory,  *)
(* configuration file, package and flags                                   *)
(***************************************************************************)

\* The most runs in a row
MaxRuns == 2

\* node validate-contracts.js once more, after the run before has ended: a
\* new process, whose state is that of the start and whose clock reads later;
\* standard output collects the reports of all the runs.
Rerun ==
  /\ pc \in {"done", "crashed"}
  /\ result.metadata.timestamp < MaxRuns
  /\ pc' = "start"
  /\ contracts' = JsUndefined
  /\ sourceFiles' = <<>>
  /\ next' = 1
  /\ result' = InitialResult(advisoryMode, result.metadata.timestamp + 1)
  /\ exitCode' = 0
  /\ UNCHANGED <<extractorVars, disk, configFile, resolvable, advisoryMode, stdout>>

RepeatNext ==
  \/ Next
  \/ Rerun

SpecRepeat == Init /\ [][RepeatNext]_vars

(***************************************************************************)
(* Runs that scan one line                                                 *)
(*                                                                         *)
(* The working directory holds one file of one line, put together from a   *)
(* lead, a keyword, an opening quote, a quoted text, a closing quote and a *)
(* tail; the configuration file loads, so that the run scans the file and  *)
(* reports.                                                                *)
(***************************************************************************)

ProbeLeads ==
  {<<>>, <<" "," ","c","o","n","s","t"," ","x"," ","="," ">>, <<" "," ","/","/"," ">>, <<"#"," ">>, <<" ","*"," ">>, <<"/","*"," ">>, <<"x","(",")",";"," ","/","/"," ">>}

ProbeQuotes == {<<<<"'">>, <<"'">>>>, <<<<"\"">>, <<BackTick>>>>, <<<<>>, <<>>>>}

ProbeTails == {<<>>, <<","," ","o","t","h","e","r",":"," ","'","t","e","r","i","c","-","a","g","e","n","t","i","c","-","w","o","r","k","-","i","t","e","m","s","'">>}

TableKeys == {<<>>, <<"T","a","b","l","e","N","a","m","e",":"," ">>}

TableTexts ==
  {<<"t","e","r","i","c","-","a","g","e","n","t","i","c","-","w","o","r","k","-","i","t","e","m","s">>, <<"T","E","R","I","C","-","A","G","E","N","T","I","C","-","W","O","R","K","-","I","T","E","M","S">>, <<"t","e","r","i","c","a","g","e","n","t","i","c","-","e","2","e","-","t","e","s","t","-","r","u","n","s">>,
   <<"t","e","r","i","c","a","g","e","n","t","i","c","m","e","t","r","i","c","s">>, <<"t","e","r","i","c","-","a","g","e","n","t","i","c","-","w","o","r","k","-","i","t","e","m","s","-","v","2">>, <<"m","y","-","t","e","r","i","c","-","a","g","e","n","t","i","c","-","m","e","t","r","i","c","s">>,
   <<"t","e","r","i","c","-","-","a","g","e","n","t","i","c","-","m","e","t","r","i","c","s">>, <<"t","e","r","i","c","_","a","g","e","n","t","i","c","_","m","e","t","r","i","c","s">>, <<"W","o","r","k","I","t","e","m","s","T","a","b","l","e">>}

LambdaKeys == {<<>>, <<"F","u","n","c","t","i","o","n","N","a","m","e",":"," ">>, <<"f","u","n","c","t","i","o","n","n","a","m","e",":">>, <<"F","u","n","c","t","i","o","n","N","a","m","e"," ","="," ">>, <<"F","u","n","c","t","i","o","n","N","a","m","e">>, <<"N","a","m","e",":"," ">>}

LambdaTexts ==
  {<<"a","p","p","-","c","o","d","e","-","r","e","v","i","e","w">>, <<"t","e","r","i","c","-","o","r","c","h","e","s","t","r","a","t","o","r">>, <<"A","p","p","-","C","o","d","e","-","R","e","v","i","e","w">>, <<"a","p","p","-","c","o","d","e","-","r","e","v","i","e","w","e","r">>,
   <<"a","p","p","c","o","d","e","r","e","v","i","e","w">>, <<"r","e","v","i","e","w","L","a","m","b","d","a">>}

SourceKeys == {<<>>, <<"S","o","u","r","c","e",":"," ">>, <<"E","v","e","n","t","S","o","u","r","c","e",":","\t">>, <<"s","o","u","r","c","e","=">>, <<"S","o","u","r","c","e","s"," ">>}

SourceTexts ==
  {<<"t","e","r","i","c",".","o","r","c","h","e","s","t","r","a","t","o","r">>, <<"t","e","r","i","c",".","p","l","a","n","n","i","n","g">>, <<"T","E","R","I","C",".","E","2","E","-","T","E","S","T","E","R">>, <<"t","e","r","i","c","X","p","l","a","n","n","i","n","g">>,
   <<"t","e","r","i","c","-","o","r","c","h","e","s","t","r","a","t","o","r">>, <<"t","e","r","i","c",".","p","l","a","n","n","i","n","g",".","v","2">>}

\* lead, keyword, quote, text, quote, tail
ProbeLine(lead, key, quotes, text, tail) ==
  lead \o key \o quotes[1] \o text \o quotes[2] \o tail

TableLines ==
  {ProbeLine(lead, key, quotes, text, tail) :
     lead \in ProbeLeads, key \in TableKeys, quotes \in ProbeQuotes,
     text \in TableTexts, tail \in ProbeTails}

LambdaLines ==
  {ProbeLine(lead, key, quotes, text, <<>>) :
     lead \in ProbeLeads, key \in LambdaKeys, quotes \in ProbeQuotes, text \in LambdaTexts}

SourceLines ==
  {ProbeLine(lead, key, quotes, text, <<>>) :
     lead \in ProbeLeads, key \in SourceKeys, quotes \in ProbeQuotes, text \in SourceTexts}

\* Lines that meet more than one check
CombinedLines ==
  {<<"F","u","n","c","t","i","o","n","N","a","m","e",":"," ","'","a","p","p","-","c","o","d","e","-","r","e","v","i","e","w","'",","," ","T","a","b","l","e","N","a","m","e",":"," ","\"","t","e","r","i","c","-","a","g","e","n","t","i","c","-","m","e","t","r","i","c","s","\"">>,
   <<"S","o","u","r","c","e",":"," ","'","t","e","r","i","c",".","p","l","a","n","n","i","n","g","'",","," ","F","u","n","c","t","i","o","n","N","a","m","e",":"," ","'","m","c","p","-","w","o","r","k","-","c","o","o","r","d","i","n","a","t","o","r","'">>,
   <<"'","a","p","p","-","e","2","e","-","t","e","s","t","e","r","'"," ","i","s"," ","t","h","e"," ","F","u","n","c","t","i","o","n","N","a","m","e">>,
   <<"F","u","n","c","t","i","o","n","N","a","m","e",":"," ","'","x","'",","," ","n","a","m","e",":"," ","'","a","p","p","-","l","l","m","-","a","d","v","i","s","o","r","'">>}

ProbeLines == TableLines \cup LambdaLines \cup SourceLines \cup CombinedLines

\* The lines scanned in every file of Nodes, the others in src/handler.ts
PathProbeLines ==
  CombinedLines
  \cup {<<" "," ","c","o","n","s","t"," ","x"," ","="," ","'","t","e","r","i","c","-","a","g","e","n","t","i","c","-","w","o","r","k","-","i","t","e","m","s","'">>, <<"F","u","n","c","t","i","o","n","N","a","m","e",":"," ","'","a","p","p","-","c","o","d","e","-","r","e","v","i","e","w","'">>,
        <<"S","o","u","r","c","e",":"," ","'","t","e","r","i","c",".","o","r","c","h","e","s","t","r","a","t","o","r","'">>}

ProbeDisks ==
  {[n \in {2} |-> [readable |-> TRUE, content |-> line]] : line \in ProbeLines}
  \cup {[n \in {f} |-> [readable |-> TRUE, content |-> line]] :
          f \in FileNodes, line \in PathProbeLines}

\* A configuration file that loads, with one declared table
LoadableConfig ==
  [exists |-> TRUE, doc |-> JsObject(Undefined, TableList(<<Table(ValidContract)>>))]

ScanInit ==
  /\ disk \in ProbeDisks
  /\ configFile = LoadableConfig
  /\ resolvable \in BOOLEAN
  /\ advisoryMode = FALSE
  /\ pc = "start"
  /\ contracts = JsUndefined
  /\ sourceFiles = <<>>
  /\ next = 1
  /\ result = InitialResult(advisoryMode, 1)
  /\ stdout = <<>>
  /\ exitCode = 0
  /\ ExtractorOff

\* The steps of validate() on a configuration file that loads
ScanNext ==
  \/ ParseContracts
  \/ ValidateDeclared
  \/ CollectSources
  \/ ScanNextFile
  \/ Report

SpecScan == ScanInit /\ [][ScanNext]_vars

(***************************************************************************)
(* Properties of the report and the exit code                              *)
(***************************************************************************)

\* The process has ended: validate() returned or called process.exit, or an
\* exception nothing catches ended it.
Exited == pc \in {"done", "crashed"}

\* The set of indices of a sequence whose element satisfies a kind
OfType(findings, type) == {i \in 1..Len(findings) : findings[i].type = type}

\* C1: in every emitted report, summary.errors is the length of violations,
\* summary.warnings is the length of warnings, and summary.total is their sum.
C1_SummaryCountsFindings ==
  \A i \in 1..Len(stdout) :
    /\ stdout[i].summary.errors = Len(stdout[i].violations)
    /\ stdout[i].summary.warnings = Len(stdout[i].warnings)
    /\ stdout[i].summary.total = stdout[i].summary.errors + stdout[i].summary.warnings

\* C2: in every emitted report, passed is true exactly when there is no
\* violation or the advisory flag is set.
C2_PassedIffCleanOrAdvisory ==
  \A i \in 1..Len(stdout) :
    stdout[i].passed <=> (Len(stdout[i].violations) = 0 \/ advisoryMode)

\* A blocking run that reported a violation, and so did not pass.
C2_Witness ==
  /\ Len(stdout) = 1
  /\ ~advisoryMode
  /\ Len(stdout[1].violations) > 0
  /\ ~stdout[1].passed

\* C3: the exit code is 1 exactly when the advisory flag is off and the report
\* holds a violation; every other run ends with exit code 0.
C3_ExitOneIffBlockingViolation ==
  Exited =>
    (exitCode = 1 <=>
       /\ ~advisoryMode
       /\ Len(stdout) > 0
       /\ Len(stdout[Len(stdout)].violations) > 0)

\* C4: whatever the configuration file and the working directory hold, the
\* run ends without an uncaught exception and has written exactly one report.
C4_AlwaysOneReport == Exited => (pc = "done" /\ Len(stdout) = 1)

\* C5: with no configuration file, nothing is collected or scanned, and the
\* run ends with exit code 0 on one report that passed, holds no violation and
\* holds one warning, of kind config_error.
C5_MissingConfigShortCircuits ==
  ~configFile.exists =>
    /\ pc \in {"start", "parsed", "done"}
    /\ sourceFiles = <<>>
    /\ next = 1
    /\ result.summary.filesScanned = 0
    /\ pc = "done" =>
         /\ exitCode = 0
         /\ Len(stdout) = 1
         /\ stdout[1].passed
         /\ Len(stdout[1].violations) = 0
         /\ Len(stdout[1].warnings) = 1
         /\ stdout[1].warnings[1].type = "config_error"
         /\ stdout[1].summary.filesScanned = 0

\* A blocking run without configuration file that has ended, in a working
\* directory whose src/handler.ts holds a hardcoded table name.
C5_Witness ==
  /\ ~configFile.exists
  /\ ~advisoryMode
  /\ pc = "done"
  /\ 2 \in DOMAIN disk
  /\ disk[2] = FileState("table")

\* The kinds of finding per severity
ErrorTypes == {"hardcoded_table_name", "hardcoded_lambda_name"}

WarningTypes ==
  {"hardcoded_event_source", "scan_error", "config_error", "invalid_contract_path",
   "package_not_installed"}

\* C6: every violation of a report has severity error and an error kind, and
\* every warning has severity warning and a warning kind.
C6_SeverityMatchesList ==
  \A i \in 1..Len(stdout) :
    /\ \A j \in 1..Len(stdout[i].violations) :
         /\ stdout[i].violations[j].severity = "error"
         /\ stdout[i].violations[j].type \in ErrorTypes
    /\ \A j \in 1..Len(stdout[i].warnings) :
         /\ stdout[i].warnings[j].severity = "warning"
         /\ stdout[i].warnings[j].type \in WarningTypes

\* A report with violations of both kinds and warnings of three kinds.
C6_Witness ==
  /\ Len(stdout) = 1
  /\ \A t \in ErrorTypes : OfType(stdout[1].violations, t) # {}
  /\ \A t \in {"hardcoded_event_source", "scan_error", "invalid_contract_path"} :
       OfType(stdout[1].warnings, t) # {}

(***************************************************************************)
(* Properties of the three checks of a line                                *)
(***************************************************************************)

\* A report was written at the end of a scan
Reported == pc = "done" /\ Len(stdout) = 1

\* The files of the working directory that the run read line by line
ScannedFiles ==
  {n \in DOMAIN disk :
     disk[n].readable /\ \E k \in 1..Len(sourceFiles) : sourceFiles[k] = Paths[n]}

\* The findings of a list with the given kind, file, line and name
Hits(findings, type, file, lineNum, name) ==
  {j \in 1..Len(findings) :
     /\ findings[j].type = type
     /\ findings[j].file = file
     /\ findings[j].line = lineNum
     /\ findings[j].message = name}

\* The findings of a list at a line of a file
FindingsAt(findings, file, lineNum) ==
  {j \in 1..Len(findings) : findings[j].file = file /\ findings[j].line = lineNum}

\* A text with its letters in upper case
UpperCase(text) == [i \in 1..Len(text) |-> Canonicalize(text[i])]

\* The texts of a line that stand between two quote characters
QuotedTexts(line) ==
  LET quotes == {i \in 1..Len(line) : line[i] \in QuoteChars}
  IN  {SubSeq(line, p[1] + 1, p[2] - 1) : p \in {q \in quotes \X quotes : q[1] < q[2]}}

\* A name with the characters at the given positions left out
Without(name, positions) ==
  LET keep == SelectSeq([i \in 1..Len(name) |-> i], LAMBDA i : i \notin positions)
  IN  [k \in 1..Len(keep) |-> name[keep[k]]]

\* The spellings of a name with each hyphen present or omitted, in upper case
HyphenForms(name) ==
  {UpperCase(Without(name, omitted)) :
     omitted \in SUBSET {i \in 1..Len(name) : name[i] = "-"}}

TableForms == [i \in 1..Len(KNOWN_TABLE_PATTERNS) |-> HyphenForms(KNOWN_TABLE_PATTERNS[i])]

\* A path of a test file, a spec file or a file under a contracts directory
IsTestOrContractsPath(path) ==
  \E part \in {<<".","t","e","s","t",".">>, <<".","s","p","e","c",".">>, <<"_","_","t","e","s","t","s","_","_">>, <<"/","c","o","n","t","r","a","c","t","s","/">>} : Includes(path, part)

\* IsTestOrContractsPath, computed once for the path of every node
TestOrContractsFile == [n \in NodeIds |-> IsTestOrContractsPath(Paths[n])]

\* C7, first half: in a scanned file that is neither a test or spec file nor
\* under a contracts directory, a line that is no comment and holds the known
\* table name T between quote characters has exactly one hardcoded_table_name
\* violation for T, however often T stands on the line.
QuotedTableNameOneViolation ==
  \A n \in ScannedFiles :
    LET lines == SplitLines(disk[n].content)
    IN  \A k \in 1..Len(lines), i \in 1..Len(KNOWN_TABLE_PATTERNS) :
          ( /\ ~TestOrContractsFile[n]
            /\ ~IsCommentLine(lines[k])
            /\ KNOWN_TABLE_PATTERNS[i] \in QuotedTexts(lines[k]) )
          => Cardinality(Hits(stdout[1].violations, "hardcoded_table_name", Paths[n], k,
                              KNOWN_TABLE_PATTERNS[i])) = 1

\* C7 as the specification states it: a line that holds a quoted known table
\* name has exactly one hardcoded_table_name violation for it, and a line that
\* holds no known table name between quote characters has no
\* hardcoded_table_name violation.
C7_AsStated ==
  Reported =>
    /\ QuotedTableNameOneViolation
    /\ \A n \in ScannedFiles :
         LET lines == SplitLines(disk[n].content)
         IN  \A k \in 1..Len(lines) :
               (\A i \in 1..Len(KNOWN_TABLE_PATTERNS) :
                  KNOWN_TABLE_PATTERNS[i] \notin QuotedTexts(lines[k]))
               => \A j \in FindingsAt(stdout[1].violations, Paths[n], k) :
                    stdout[1].violations[j].type # "hardcoded_table_name"

\* C7: a line that holds the quoted known table name T has exactly one
\* hardcoded_table_name violation for T (in a file that is no test, spec or
\* contracts file, on a line that is no comment), and a line has no
\* hardcoded_table_name violation for T when none of its quoted texts is T
\* with each hyphen present or omitted, letter case aside.
C7_QuotedTableName ==
  Reported =>
    /\ QuotedTableNameOneViolation
    /\ \A n \in ScannedFiles :
         LET lines == SplitLines(disk[n].content)
         IN  \A k \in 1..Len(lines), i \in 1..Len(KNOWN_TABLE_PATTERNS) :
               (\A q \in QuotedTexts(lines[k]) : UpperCase(q) \notin TableForms[i])
               => Hits(stdout[1].violations, "hardcoded_table_name", Paths[n], k,
                       KNOWN_TABLE_PATTERNS[i]) = {}

\* src/handler.ts holds one line with the quoted table name twice, and the
\* report has one violation.
C7_Witness ==
  /\ Reported
  /\ DOMAIN disk = {2}
  /\ disk[2].content =
       ProbeLine(<<" "," ","c","o","n","s","t"," ","x"," ","="," ">>, <<>>, <<<<"'">>, <<"'">>>>, <<"t","e","r","i","c","-","a","g","e","n","t","i","c","-","w","o","r","k","-","i","t","e","m","s">>,
                 <<","," ","o","t","h","e","r",":"," ","'","t","e","r","i","c","-","a","g","e","n","t","i","c","-","w","o","r","k","-","i","t","e","m","s","'">>)
  /\ Len(stdout[1].violations) = 1
  /\ stdout[1].violations[1].type = "hardcoded_table_name"

\* C8: in a scanned file whose path contains .test., .spec., __tests__ or
\* /contracts/, a line that holds a quoted known table name has no violation.
C8_TestAndContractFilesYieldNothing ==
  Reported =>
    \A n \in ScannedFiles :
      LET lines == SplitLines(disk[n].content)
      IN  \A k \in 1..Len(lines) :
            ( /\ TestOrContractsFile[n]
              /\ \E i \in 1..Len(KNOWN_TABLE_PATTERNS) :
                   KNOWN_TABLE_PATTERNS[i] \in QuotedTexts(lines[k]) )
            => FindingsAt(stdout[1].violations, Paths[n], k) = {}

\* The FunctionName keyword, in any letter case, stands on the line in front
\* of the name between quote characters, the name in any letter case
KeywordInFront(line, name) ==
  \E q \in {i \in 1..(Len(line) - Len(name) - 1) : line[i] \in QuoteChars} :
    /\ line[q + Len(name) + 1] \in QuoteChars
    /\ UpperCase(SubSeq(line, q + 1, q + Len(name))) = UpperCase(name)
    /\ \E p \in 1..(q - Len(FunctionNameKeyword)) :
         /\ Canonicalize(line[p]) = "F"
         /\ UpperCase(SubSeq(line, p, p + Len(FunctionNameKeyword) - 1))
              = UpperCase(FunctionNameKeyword)

\* The line holds the keyword, a colon, a space and the name between quote
\* characters
HasShape(line, keyword, name) ==
  \E open \in QuoteChars, close \in QuoteChars :
    Includes(line, keyword \o <<":"," ">> \o <<open>> \o name \o <<close>>)

SourceShapes(content) ==
  LET lines == SplitLines(content)
  IN  [k \in 1..Len(lines) |->
        [i \in 1..Len(KNOWN_EVENT_SOURCES) |->
           /\ ~IsCommentLine(lines[k])
           /\ HasShape(lines[k], SourceKeyword, KNOWN_EVENT_SOURCES[i])]]

\* SourceShapes, computed once for every content of FileState
SourceShapeTable ==
  [s \in UNION {Nodes[n].may : n \in FileNodes} |-> SourceShapes(FileState(s).content)]

SourceShapesOf(file) ==
  IF \E s \in DOMAIN SourceShapeTable : FileState(s) = file
  THEN SourceShapeTable[CHOOSE s \in DOMAIN SourceShapeTable : FileState(s) = file]
  ELSE SourceShapes(file.content)

\* C10: a line of the shape Source: S, the known source S between quote
\* characters, that is no comment and stands in a file that is no test, spec
\* or contracts file has exactly one hardcoded_event_source warning for S, and
\* no violation is of that kind; a report without violations has passed true
\* and the process exits with code 0, in blocking mode and in advisory mode,
\* whatever warnings the report holds.
C10_EventSourcesOnlyWarn ==
  Reported =>
    /\ \A n \in ScannedFiles :
         ~TestOrContractsFile[n] =>
           LET shapes == SourceShapesOf(disk[n])
           IN  \A k \in DOMAIN shapes, i \in 1..Len(KNOWN_EVENT_SOURCES) :
                 shapes[k][i] =>
                   /\ Cardinality(Hits(stdout[1].warnings, "hardcoded_event_source",
                                       Paths[n], k, KNOWN_EVENT_SOURCES[i])) = 1
                   /\ Hits(stdout[1].violations, "hardcoded_event_source", Paths[n], k,
                           KNOWN_EVENT_SOURCES[i]) = {}
    /\ OfType(stdout[1].violations, "hardcoded_event_source") = {}
    /\ Len(stdout[1].violations) = 0 => (stdout[1].passed /\ exitCode = 0)

\* In blocking mode, lib/events.jsx holds an event source and index.js cannot
\* be read: the report has two warnings and no violation.
C10_Witness ==
  /\ Reported
  /\ ~advisoryMode
  /\ DOMAIN disk = {12, 14}
  /\ disk[12] = FileState("event")
  /\ disk[14] = FileState("unreadable")
  /\ Len(stdout[1].violations) = 0
  /\ OfType(stdout[1].warnings, "hardcoded_event_source") # {}
  /\ OfType(stdout[1].warnings, "scan_error") # {}
  /\ stdout[1].passed
  /\ exitCode = 0

(***************************************************************************)
(* Properties of runs: empty trees, repeated runs, failed reads, order     *)
(***************************************************************************)

\* The step that writes the report of a scan over the files of sourceFiles
ReportsScan == pc = "scan" /\ pc' = "done"

EnumeratedFiles ==
  {n \in DOMAIN disk : \E k \in 1..Len(sourceFiles) : sourceFiles[k] = Paths[n]}

\* The findings of a list that name the file, in the order of the list
OfFile(findings, file) == SelectSeq(findings, LAMBDA f : f.file = file)

\* C13: in the report of a scan, every enumerated file that could not be read
\* has exactly one finding, a scan_error warning that names it and carries
\* the reason of the failure, and every enumerated file that could be read
\* has the findings scanFile yields for it alone, in the same order; a run
\* that has begun to scan goes on to the report and never ends on an
\* exception.
C13_ReadFailureIsOneWarning ==
  /\ [](pc = "done" =>
         \A n \in EnumeratedFiles :
           LET violations == OfFile(stdout[1].violations, Paths[n])
               warnings == OfFile(stdout[1].warnings, Paths[n])
           IN  IF disk[n].readable
               THEN /\ violations = ScanOnDisk(disk, Paths[n]).violations
                    /\ warnings = ScanOnDisk(disk, Paths[n]).warnings
                    /\ \A j \in 1..Len(warnings) : warnings[j].type # "scan_error"
               ELSE /\ violations = <<>>
                    /\ Len(warnings) = 1
                    /\ warnings[1].type = "scan_error"
                    /\ warnings[1].message = disk[n].content)
  /\ [][pc = "scan" => pc' \in {"scan", "done"}]_vars

\* src/handler.ts could not be read and index.js holds an event source: the
\* report holds the scan_error of the first and then the warning of the second.
C13_Witness ==
  /\ pc = "done"
  /\ DOMAIN disk = {2, 14}
  /\ ~disk[2].readable
  /\ disk[14] = FileState("event")
  /\ resolvable
  /\ Len(stdout[1].warnings) = 2
  /\ stdout[1].warnings[1].type = "scan_error"
  /\ stdout[1].warnings[1].file = Paths[2]
  /\ stdout[1].warnings[2].type = "hardcoded_event_source"
  /\ stdout[1].warnings[2].file = Paths[14]

\* The place of a finding in the enumeration: the index of its file in
\* sourceFiles, 0 for a finding that names no enumerated file
Position(finding) ==
  IF \E k \in 1..Len(sourceFiles) : sourceFiles[k] = finding.file
  THEN CHOOSE k \in 1..Len(sourceFiles) : sourceFiles[k] = finding.file
  ELSE 0

\* The findings of enumerated files stand in the list by the place of their
\* file and, within a file, by line number
InScanOrder(findings) ==
  \A i \in 1..Len(findings), j \in 1..Len(findings) :
    (i < j /\ Position(findings[i]) # 0 /\ Position(findings[j]) # 0) =>
      \/ Position(findings[i]) < Position(findings[j])
      \/ /\ Position(findings[i]) = Position(findings[j])
         /\ findings[i].line <= findings[j].line

\* The first list is the beginning of the second
IsPrefix(s, t) == Len(s) <= Len(t) /\ SubSeq(t, 1, Len(s)) = s

\* C14: at every moment of a run the violations and the warnings gathered so
\* far are each ordered by the place of the file in the enumeration and,
\* within a file, by line number that does not decrease; every step keeps
\* the findings gathered so far, in their order, and only appends.
C14_FindingsInScanOrder ==
  /\ [](InScanOrder(result.violations) /\ InScanOrder(result.warnings))
  /\ [](\A i \in 1..Len(stdout) :
          InScanOrder(stdout[i].violations) /\ InScanOrder(stdout[i].warnings))
  /\ [][/\ IsPrefix(result.violations, result'.violations)
        /\ IsPrefix(result.warnings, result'.warnings)]_vars

\* The report of src/handler.ts, with a function name on line 1 and table
\* names on line 3, and of index.js: three violations in this order, and the
\* warnings of the two files in this order.
C14_Witness ==
  /\ pc = "done"
  /\ DOMAIN disk = {2, 14}
  /\ disk[2] = FileState("mixed")
  /\ disk[14] = FileState("event")
  /\ Len(stdout[1].violations) = 3
  /\ stdout[1].violations[1].line = 1
  /\ stdout[1].violations[3].line = 3
  /\ \E i, j \in 1..Len(stdout[1].warnings) :
       /\ i < j
       /\ stdout[1].warnings[i].file = Paths[2]
       /\ stdout[1].warnings[j].file = Paths[14]

\* C15: the function-name check and the event-source check are suppressed on
\* the paths on which the table-name check is: the report holds no
\* hardcoded_lambda_name violation and no hardcoded_event_source warning for a
\* file whose path contains /contracts/, .test., .spec. or __tests__.
C15_SameSuppressionForAllChecks ==
  pc = "done" =>
    \A n \in EnumeratedFiles :
      TestOrContractsFile[n] =>
        /\ \A j \in 1..Len(stdout[1].violations) :
             stdout[1].violations[j].file = Paths[n]
               => stdout[1].violations[j].type # "hardcoded_lambda_name"
        /\ \A j \in 1..Len(stdout[1].warnings) :
             stdout[1].warnings[j].file = Paths[n]
               => stdout[1].warnings[j].type # "hardcoded_event_source"

(***************************************************************************)
(* Properties of comment lines, of the declared-contract check, of the     *)
(* table regex and of the enumeration                                      *)
(***************************************************************************)

\* The first character of the line that is no white space begins one of the
\* markers //, # and *
BeginsWithMarker(line) ==
  \E i \in 1..Len(line) :
    /\ \A j \in 1..(i - 1) : line[j] \in WhiteSpace
    /\ \/ line[i] \in {"#", "*"}
       \/ line[i] = "/" /\ i < Len(line) /\ line[i + 1] = "/"

\* C16: a line that, white space aside, begins with //, # or * has no finding
\* of any kind, whatever it holds; every other line goes through the three
\* checks: in a file that is no test, spec or contracts file it has a
\* hardcoded_table_name violation for a known table name it holds between
\* quote characters, a hardcoded_lambda_name violation for a known function
\* name F it holds in the shape FunctionName: F, and a hardcoded_event_source
\* warning for a known source S it holds in the shape Source: S.
C16_CommentLinesYieldNothing ==
  Reported =>
    \A n \in ScannedFiles :
      LET lines == SplitLines(disk[n].content)
      IN  \A k \in 1..Len(lines) :
            IF BeginsWithMarker(lines[k])
            THEN /\ FindingsAt(stdout[1].violations, Paths[n], k) = {}
                 /\ FindingsAt(stdout[1].warnings, Paths[n], k) = {}
            ELSE ~TestOrContractsFile[n] =>
                   /\ \A i \in 1..Len(KNOWN_TABLE_PATTERNS) :
                        KNOWN_TABLE_PATTERNS[i] \in QuotedTexts(lines[k])
                        => Hits(stdout[1].violations, "hardcoded_table_name", Paths[n], k,
                                KNOWN_TABLE_PATTERNS[i]) # {}
                   /\ \A i \in 1..Len(KNOWN_LAMBDA_PATTERNS) :
                        HasShape(lines[k], FunctionNameKeyword, KNOWN_LAMBDA_PATTERNS[i])
                        => Hits(stdout[1].violations, "hardcoded_lambda_name", Paths[n], k,
                                KNOWN_LAMBDA_PATTERNS[i]) # {}
                   /\ \A i \in 1..Len(KNOWN_EVENT_SOURCES) :
                        HasShape(lines[k], SourceKeyword, KNOWN_EVENT_SOURCES[i])
                        => Hits(stdout[1].warnings, "hardcoded_event_source", Paths[n], k,
                                KNOWN_EVENT_SOURCES[i]) # {}

\* src/handler.ts holds an indented // line with a function name in the
\* shape FunctionName: F, and the report has no finding for the file.
C16_Witness ==
  /\ Reported
  /\ DOMAIN disk = {2}
  /\ disk[2].content =
       ProbeLine(<<" "," ","/","/"," ">>, <<"F","u","n","c","t","i","o","n","N","a","m","e",":"," ">>, <<<<"'">>, <<"'">>>>, <<"a","p","p","-","c","o","d","e","-","r","e","v","i","e","w">>, <<>>)
  /\ sourceFiles = <<Paths[2]>>
  /\ stdout[1].violations = <<>>
  /\ OfFile(stdout[1].warnings, Paths[2]) = <<>>

\* The step of the declared-contract check: validate() has a document without
\* a truthy error key and leaves the position after the parse
ChecksDeclared ==
  /\ pc = "parsed"
  /\ pc' # "parsed"
  /\ contracts.t \notin {"undefined", "null"}
  /\ ~Truthy(contracts.error)

\* C17: when the contracts package does not resolve, the declared-contract
\* check adds exactly one warning, of kind package_not_installed, and no
\* invalid_contract_path warning, whatever dynamodb.tables holds; it does not
\* read the declared tables, so it throws on none of them, and the run goes
\* on to enumerate and scan the source files.
C17_MissingPackageOneWarning ==
  /\ [][(ChecksDeclared /\ ~resolvable) =>
          /\ pc' = "collect"
          /\ Len(result'.warnings) = Len(result.warnings) + 1
          /\ result'.warnings[Len(result'.warnings)].type = "package_not_installed"]_vars
  /\ [](~resolvable =>
          /\ OfType(result.warnings, "invalid_contract_path") = {}
          /\ Cardinality(OfType(result.warnings, "package_not_installed")) <= 1)
  /\ []((~resolvable /\ pc = "done" /\ ~Truthy(contracts.error)) =>
          /\ Cardinality(OfType(stdout[1].warnings, "package_not_installed")) = 1
          /\ stdout[1].summary.filesScanned = Len(sourceFiles)
          /\ next = Len(sourceFiles) + 1)

\* The package does not resolve, dynamodb.tables is not iterable, and the run
\* has scanned src/handler.ts and reported its violation.
C17_Witness ==
  /\ pc = "done"
  /\ ~resolvable
  /\ contracts = JsObject(Undefined, NotIterable)
  /\ DOMAIN disk = {2}
  /\ disk[2] = FileState("table")
  /\ Len(stdout[1].violations) = 1
  /\ Len(stdout[1].warnings) = 1
  /\ stdout[1].warnings[1].type = "package_not_installed"

\* The spellings of a name with each hyphen present or omitted
ExactHyphenForms(name) ==
  {Without(name, omitted) : omitted \in SUBSET {i \in 1..Len(name) : name[i] = "-"}}

ExactTableForms ==
  [i \in 1..Len(KNOWN_TABLE_PATTERNS) |-> ExactHyphenForms(KNOWN_TABLE_PATTERNS[i])]

\* C18 as the specification states it: a line has a hardcoded_table_name
\* violation for the known table name T exactly when one of its quoted texts
\* is T with each hyphen present or omitted.
C18_AsStated ==
  Reported =>
    \A n \in ScannedFiles :
      LET lines == SplitLines(disk[n].content)
      IN  \A k \in 1..Len(lines), i \in 1..Len(KNOWN_TABLE_PATTERNS) :
            (~TestOrContractsFile[n] /\ ~BeginsWithMarker(lines[k])) =>
              (Hits(stdout[1].violations, "hardcoded_table_name", Paths[n], k,
                    KNOWN_TABLE_PATTERNS[i]) # {}
               <=> \E q \in QuotedTexts(lines[k]) : q \in ExactTableForms[i])

\* C18: in a file that is no test, spec or contracts file, a line that is no
\* comment has a hardcoded_table_name violation for the known table name T
\* exactly when one of its quoted texts is T with each hyphen present or
\* omitted, letter case aside; so a quoted text that has T as a proper prefix
\* or a proper suffix yields no violation for T.
C18_HyphenFormsOnly ==
  Reported =>
    \A n \in ScannedFiles :
      LET lines == SplitLines(disk[n].content)
      IN  \A k \in 1..Len(lines), i \in 1..Len(KNOWN_TABLE_PATTERNS) :
            (~TestOrContractsFile[n] /\ ~BeginsWithMarker(lines[k])) =>
              (Hits(stdout[1].violations, "hardcoded_table_name", Paths[n], k,
                    KNOWN_TABLE_PATTERNS[i]) # {}
               <=> \E q \in QuotedTexts(lines[k]) : UpperCase(q) \in TableForms[i])

\* src/handler.ts holds the one quoted text teric-agentic-work-items-v2, and
\* the report has no violation.
C18_Witness ==
  /\ Reported
  /\ DOMAIN disk = {2}
  /\ disk[2].content =
       ProbeLine(<<" "," ","c","o","n","s","t"," ","x"," ","="," ">>, <<>>, <<<<"'">>, <<"'">>>>, <<"t","e","r","i","c","-","a","g","e","n","t","i","c","-","w","o","r","k","-","i","t","e","m","s","-","v","2">>, <<>>)
  /\ sourceFiles = <<Paths[2]>>
  /\ stdout[1].violations = <<>>

\* The path has a segment of the given name
HasSegment(path, name) == Includes(<<"/">> \o path \o <<"/">>, <<"/">> \o name \o <<"/">>)

\* The path lies below a directory of the deny-list
BelowDeniedDirectory(path) ==
  \E name \in {<<"n","o","d","e","_","m","o","d","u","l","e","s">>, <<"d","i","s","t">>, <<"b","u","i","l","d">>, <<".","g","i","t">>, <<"c","o","v","e","r","a","g","e">>, <<".","n","e","x","t">>, <<".","c","a","c","h","e">>} :
    HasSegment(path, name) /\ ~EndsWith(path, <<"/">> \o name)

\* The path lies below one of the five roots and ends in one of the four
\* extensions
IsSourcePath(path) ==
  /\ \E root \in {<<"s","r","c">>, <<"l","i","b">>, <<"h","a","n","d","l","e","r","s">>, <<"s","e","r","v","i","c","e","s">>, <<"c","o","m","p","o","n","e","n","t","s">>} :
       StartsWith(path, root \o <<"/">>)
  /\ \E extension \in {<<".","t","s">>, <<".","j","s">>, <<".","t","s","x">>, <<".","j","s","x">>} : EndsWith(path, extension)

\* BelowDeniedDirectory and IsSourcePath, computed once for the path of
\* every node
DeniedFile == [n \in NodeIds |-> BelowDeniedDirectory(Paths[n])]

SourceFile == [n \in NodeIds |-> IsSourcePath(Paths[n])]

\* C19: once the enumeration is done, sourceFiles holds no file below a
\* directory named node_modules, dist, build, .git, coverage, .next or
\* .cache, at whatever depth, and holds exactly once every file of the
\* working directory that lies below src, lib, handlers, services or
\* components, outside such directories, and ends in .ts, .js, .tsx or .jsx.
C19_EnumerationSkipsDeniedDirectories ==
  pc = "scan" =>
    /\ \A k \in 1..Len(sourceFiles) :
         \E n \in DOMAIN disk : sourceFiles[k] = Paths[n] /\ ~DeniedFile[n]
    /\ \A n \in DOMAIN disk :
         (SourceFile[n] /\ ~DeniedFile[n]) =>
           Cardinality({k \in 1..Len(sourceFiles) : sourceFiles[k] = Paths[n]}) = 1

\* The working directory holds src/contracts/tables.ts and
\* lib/util/build/gen.ts, and the enumeration returned the first only.
C19_Witness ==
  /\ pc = "scan"
  /\ DOMAIN disk = {5, 19}
  /\ sourceFiles = <<Paths[5]>>

\* C20: the run takes the config_error short-circuit exactly when the
\* configuration file is absent or cannot be parsed; every file that exists
\* and parses, whatever its top-level keys, leads to the declared-contract
\* check and the scan of the enumerated files, and to a report without
\* config_error warning.
C20_ShortCircuitOnlyOnLoadFailure ==
  pc \in {"done", "crashed"} =>
    LET loads == configFile.exists /\ configFile.doc # Unparseable
    IN  /\ (\E i \in 1..Len(stdout) : OfType(stdout[i].warnings, "config_error") # {})
           <=> ~loads
        /\ loads =>
             /\ pc = "done"
             /\ next = Len(sourceFiles) + 1
             /\ \A n \in DOMAIN disk :
                  (SourceFile[n] /\ ~DeniedFile[n]) => n \in EnumeratedFiles

(***************************************************************************)
(* The dot of a known event source                                         *)
(***************************************************************************)

\* The line holds the name, letter case aside, between two quote characters
QuotedLiterally(line, name) ==
  \E q \in 1..(Len(line) - Len(name) - 1) :
    /\ line[q] \in QuoteChars
    /\ line[q + Len(name) + 1] \in QuoteChars
    /\ UpperCase(SubSeq(line, q + 1, q + Len(name))) = UpperCase(name)

\* C21: every hardcoded_event_source warning of the report for a known
\* source S points at a line that holds S character for character, letter
\* case aside, between quote characters: a quoted text with another
\* character where S has its dot has no warning.
C21_SourceMatchedLiterally ==
  Reported =>
    \A n \in ScannedFiles :
      LET lines == SplitLines(disk[n].content)
      IN  \A j \in 1..Len(stdout[1].warnings) :
            LET w == stdout[1].warnings[j]
            IN  (w.type = "hardcoded_event_source" /\ w.file = Paths[n])
                  => QuotedLiterally(lines[w.line], w.message)

(***************************************************************************)
(* architecture-extractor.mjs: the source repository                       *)
(*                                                                         *)
(* RepoNodes lists the entries the directory SOURCE_REPO_PATH of the model *)
(* may hold, in the order readdirSync returns them; parent 0 is            *)
(* SOURCE_REPO_PATH itself.                                                *)
(***************************************************************************)

RepoNodes ==
  << [parent |-> 0, kind |-> "file", name |-> <<"p","a","c","k","a","g","e",".","j","s","o","n">>, may |-> {"package"}],
     [parent |-> 0, kind |-> "dir",  name |-> <<"s","r","c">>, may |-> {}],
     [parent |-> 2, kind |-> "file", name |-> <<"h","a","n","d","l","e","r",".","t","s">>, may |-> {"twice", "env", "flags", "apart", "plain", "unreadable"}],
     [parent |-> 2, kind |-> "dir",  name |-> <<"h","a","n","d","l","e","r","s">>, may |-> {}],
     [parent |-> 4, kind |-> "file", name |-> <<"r","u","n",".","t","s">>, may |-> {"twice", "env"}],
     [parent |-> 2, kind |-> "dir",  name |-> <<"l","i","b">>, may |-> {}],
     [parent |-> 6, kind |-> "dir",  name |-> <<"n","o","d","e","_","m","o","d","u","l","e","s">>, may |-> {}],
     [parent |-> 7, kind |-> "file", name |-> <<"d","e","p",".","j","s">>, may |-> {"env"}],
     [parent |-> 6, kind |-> "file", name |-> <<"f","l","a","g","s",".","j","s">>, may |-> {"flags"}],
     [parent |-> 2, kind |-> "file", name |-> <<"n","o","t","e","s",".","m","d">>, may |-> {"env"}] >>

RepoNodeIds == 1..Len(RepoNodes)

RepoFileNodes == {n \in RepoNodeIds : RepoNodes[n].kind = "file"}

\* path.join of the names from SOURCE_REPO_PATH down to node n: the path
\* path.relative(SOURCE_REPO_PATH, fullPath) gives back
RECURSIVE RepoPathOf(_)
RepoPathOf(n) ==
  IF n = 0 THEN <<>> ELSE JoinPath(RepoPathOf(RepoNodes[n].parent), RepoNodes[n].name)

\* RepoPathOf, computed once for every node
RepoPaths == [n \in RepoNodeIds |-> RepoPathOf(n)]

RECURSIVE RepoIsAncestor(_, _)
RepoIsAncestor(d, n) ==
  /\ n # 0
  /\ RepoNodes[n].parent # 0
  /\ (RepoNodes[n].parent = d \/ RepoIsAncestor(d, RepoNodes[n].parent))

\* The texts a file of the source repository may hold.
PackageText == <<"{"," ","\"","n","a","m","e","\"",":"," ","\"","a","p","p","-","c","o","d","e","-","r","e","v","i","e","w","\""," ","}">>

TwiceText == <<"c","o","n","s","t"," ","d","b"," ","="," ","n","e","w"," ","D","y","n","a","m","o","D","B","C","l","i","e","n","t","(","{","}",")",";","\n","D","y","n","a","m","o","D","B","C","l","i","e","n","t",".","s","e","n","d","(","c","m","d",")",";","\n","c","o","n","s","t"," ","t"," ","="," ","p","r","o","c","e","s","s",".","e","n","v",".","T","A","B","L","E",";">>

EnvText == <<"c","o","n","s","t"," ","a"," ","="," ","p","r","o","c","e","s","s",".","e","n","v",".","A",";","\n","c","o","n","s","t"," ","b"," ","="," ","p","r","o","c","e","s","s",".","e","n","v",".","B",";","\n","c","o","n","s","t"," ","c"," ","="," ","p","r","o","c","e","s","s",".","e","n","v",".","C",";">>

FlagsText == <<"i","f"," ","(","i","s","E","n","a","b","l","e","d","(","U","S","E","_","C","A","C","H","E",")",")"," ","{","\n"," "," ","m","c","p","_","_","t","o","o","l","(","E","N","A","B","L","E","_","X",")",";","\n","}">>

ApartText == <<"x"," ","="," ","U","S","E","_","A",";","\n"," "," "," "," "," "," "," "," ","c","o","n","s","t"," ","y"," ","="," ","p","r","o","c","e","s","s",".","e","n","v",".","U","S","E","_","B",";">>

PlainText == <<"e","x","p","o","r","t"," ","d","e","f","a","u","l","t"," ","{","}",";">>

RepoFileState(s) ==
  CASE s = "package" -> [readable |-> TRUE, content |-> PackageText]
    [] s = "twice" -> [readable |-> TRUE, content |-> TwiceText]
    [] s = "env" -> [readable |-> TRUE, content |-> EnvText]
    [] s = "flags" -> [readable |-> TRUE, content |-> FlagsText]
    [] s = "apart" -> [readable |-> TRUE, content |-> ApartText]
    [] s = "plain" -> [readable |-> TRUE, content |-> PlainText]
    [] s = "unreadable" -> [readable |-> FALSE, content |-> ReadFailure]

\* Is node n in the tree t? A directory is there when a file below it is.
RepoPresent(t, n) ==
  IF RepoNodes[n].kind = "file" THEN n \in DOMAIN t
  ELSE \E f \in DOMAIN t : RepoIsAncestor(n, f)

\* fs.readdirSync(dir, {withFileTypes: true}): the present entries of
\* directory node dir, in directory order.
RepoReadDir(t, dir) ==
  SelectSeq([i \in RepoNodeIds |-> i], LAMBDA n : RepoNodes[n].parent = dir /\ RepoPresent(t, n))

\* The present node a path relative to SOURCE_REPO_PATH names, 0 when there
\* is none (fs.existsSync is false).
RepoLookup(t, path) ==
  IF \E n \in RepoNodeIds : RepoPaths[n] = path /\ RepoPresent(t, n)
  THEN CHOOSE n \in RepoNodeIds : RepoPaths[n] = path /\ RepoPresent(t, n)
  ELSE 0

(***************************************************************************)
(* grepInSrc                                                               *)
(***************************************************************************)

\* The default of the parameter maxMatches
DefaultMaxMatches == 10

\* An argument maxMatches: a number, or undefined (the entry of
\* GREP_PATTERNS has no maxMatches)
Given(n) == [given |-> TRUE, value |-> n]

NotGiven == [given |-> FALSE, value |-> 0]

\* maxMatches of the pattern of environment variables
EnvironmentMaxMatches == 30

\* GREP_PATTERNS: every pattern is an alternation of texts without any other
\* operator (the escaped dot is the dot itself), held as the sequence of its
\* alternatives; maxMatches is undefined where the entry has none.
GREP_PATTERNS ==
  << [pattern |-> <<<<"D","y","n","a","m","o","D","B","C","l","i","e","n","t">>, <<"D","y","n","a","m","o","D","B","D","o","c","u","m","e","n","t","C","l","i","e","n","t">>>>, label |-> "DynamoDB usage", maxMatches |-> NotGiven],
     [pattern |-> <<<<"S","S","M","C","l","i","e","n","t">>, <<"g","e","t","P","a","r","a","m","e","t","e","r">>>>, label |-> "SSM usage", maxMatches |-> NotGiven],
     [pattern |-> <<<<"L","a","m","b","d","a","C","l","i","e","n","t">>, <<"l","a","m","b","d","a",".","i","n","v","o","k","e">>>>, label |-> "Lambda invocation", maxMatches |-> NotGiven],
     [pattern |-> <<<<"S","3","C","l","i","e","n","t">>, <<"P","u","t","O","b","j","e","c","t","C","o","m","m","a","n","d">>, <<"G","e","t","O","b","j","e","c","t","C","o","m","m","a","n","d">>>>, label |-> "S3 usage", maxMatches |-> NotGiven],
     [pattern |-> <<<<"E","v","e","n","t","B","r","i","d","g","e","C","l","i","e","n","t">>, <<"P","u","t","E","v","e","n","t","s","C","o","m","m","a","n","d">>, <<"p","u","t","E","v","e","n","t","s">>>>, label |-> "EventBridge usage", maxMatches |-> NotGiven],
     [pattern |-> <<<<"S","F","N","C","l","i","e","n","t">>, <<"S","t","a","r","t","E","x","e","c","u","t","i","o","n","C","o","m","m","a","n","d">>>>, label |-> "Step Functions usage", maxMatches |-> NotGiven],
     [pattern |-> <<<<"S","Q","S","C","l","i","e","n","t">>, <<"S","e","n","d","M","e","s","s","a","g","e","C","o","m","m","a","n","d">>>>, label |-> "SQS usage", maxMatches |-> NotGiven],
     [pattern |-> <<<<"m","c","p","_","_">>>>, label |-> "MCP tool calls", maxMatches |-> NotGiven],
     [pattern |-> <<<<"p","r","o","c","e","s","s",".","e","n","v",".">>>>, label |-> "Environment variables", maxMatches |-> Given(EnvironmentMaxMatches)],
     [pattern |-> <<<<"E","N","F","O","R","C","E","_">>, <<"U","S","E","_">>, <<"E","N","A","B","L","E","_">>, <<"g","e","t","F","e","a","t","u","r","e","F","l","a","g">>, <<"i","s","E","n","a","b","l","e","d">>>>, label |-> "Feature flags", maxMatches |-> NotGiven] >>

\* Does the text stand in the line at the 0-based index p?
TextAt(line, text, p) ==
  /\ p + Len(text) <= Len(line)
  /\ \A i \in 1..Len(text) : line[p + i] = text[i]

\* RegExp.prototype.test of an expression with the g flag (and no i flag):
\* the search starts at lastIndex; a match sets lastIndex to the index after
\* the match, of the first alternative that matches at the leftmost index; no
\* match, or a lastIndex beyond the line, sets lastIndex to 0.
RegexTestGlobal(alternatives, line, lastIndex) ==
  LET hits == {p \in lastIndex..Len(line) :
                 \E a \in 1..Len(alternatives) : TextAt(line, alternatives[a], p)}
  IN  IF hits = {} THEN [found |-> FALSE, lastIndex |-> 0]
      ELSE LET p0 == CHOOSE p \in hits : \A q \in hits : p <= q
               a0 == CHOOSE a \in 1..Len(alternatives) :
                       /\ TextAt(line, alternatives[a], p0)
                       /\ \A b \in 1..(a - 1) : ~TextAt(line, alternatives[b], p0)
           IN  [found |-> TRUE, lastIndex |-> p0 + Len(alternatives[a0])]

\* One entry of results: the parts of the string relPath:lineNumber: text
GrepResult(relPath, lineNumber, text) ==
  [file |-> relPath, line |-> lineNumber, text |-> text]

\* The loop over the lines of one file, from line i on, with the one regex
\* of the file; it stops when results holds limit entries.
RECURSIVE GrepLines(_, _, _, _, _, _, _)
GrepLines(relPath, lines, i, lastIndex, alternatives, limit, results) ==
  IF i > Len(lines) THEN results
  ELSE LET t == RegexTestGlobal(alternatives, lines[i], lastIndex)
       IN  IF t.found
           THEN LET pushed == Append(results, GrepResult(relPath, i, Trim(lines[i])))
                IN  IF Len(pushed) >= limit THEN pushed
                    ELSE GrepLines(relPath, lines, i + 1, t.lastIndex, alternatives, limit, pushed)
           ELSE GrepLines(relPath, lines, i + 1, t.lastIndex, alternatives, limit, results)

\* walk, on the entries of one directory that are still to visit: acc is
\* [threw, results]; readFileSync throws on a file it cannot read, and
\* nothing in grepInSrc catches it.
RECURSIVE WalkEntries(_, _, _, _, _)
WalkEntries(t, entries, alternatives, limit, acc) ==
  IF entries = <<>> \/ acc.threw \/ Len(acc.results) >= limit THEN acc
  ELSE LET n == Head(entries)
           name == RepoNodes[n].name
           after ==
             IF RepoNodes[n].kind = "dir"
             THEN IF name # <<"n","o","d","e","_","m","o","d","u","l","e","s">>
                  THEN WalkEntries(t, RepoReadDir(t, n), alternatives, limit, acc)
                  ELSE acc
             ELSE IF EndsWith(name, <<".","t","s">>) \/ EndsWith(name, <<".","j","s">>)
                  THEN IF ~t[n].readable THEN [threw |-> TRUE, results |-> acc.results]
                       ELSE [threw |-> FALSE,
                             results |-> GrepLines(RepoPaths[n], SplitLines(t[n].content), 1, 0,
                                                   alternatives, limit, acc.results)]
                  ELSE acc
       IN  WalkEntries(t, Tail(entries), alternatives, limit, after)

\* grepInSrc(pattern, maxMatches) on the tree t below SOURCE_REPO_PATH; the
\* default of maxMatches stands in for undefined.
grepInSrc(t, alternatives, limit) ==
  LET max == IF limit.given THEN limit.value ELSE DefaultMaxMatches
      src == RepoLookup(t, <<"s","r","c">>)
  IN  IF src = 0 THEN [threw |-> FALSE, results |-> <<>>]
      ELSE WalkEntries(t, RepoReadDir(t, src), alternatives, max, [threw |-> FALSE, results |-> <<>>])

(***************************************************************************)
(* Calls of grepInSrc                                                      *)
(***************************************************************************)

\* The most files of a source repository
MaxRepoFiles == 2

\* The largest maxMatches a call is given, the default aside
MaxLimit == 2

\* The trees below SOURCE_REPO_PATH: at most MaxRepoFiles files, each in a
\* state of its may
RepoTrees ==
  UNION {{[n \in S |-> RepoFileState(c[n])] :
            c \in {e \in [S -> UNION {RepoNodes[n].may : n \in S}] :
                     \A n \in S : e[n] \in RepoNodes[n].may}} :
           S \in {T \in SUBSET RepoFileNodes : Cardinality(T) <= MaxRepoFiles}}

\* validate-contracts.js is not run
ValidatorOff ==
  /\ disk = <<>>
  /\ configFile = [exists |-> FALSE, doc |-> JsUndefined]
  /\ resolvable = FALSE
  /\ advisoryMode = FALSE
  /\ pc = "off"
  /\ contracts = JsUndefined
  /\ sourceFiles = <<>>
  /\ next = 1
  /\ result = InitialResult(FALSE, 1)
  /\ stdout = <<>>
  /\ exitCode = 0

\* An environment that passes the checks of the script
SetEnvironment ==
  [REPO_NAME |-> <<"a","p","p","-","c","o","d","e","-","r","e","v","i","e","w">>, SCHEMA_PATH |-> <<"s","c","h","e","m","a","/","c","o","m","p","o","n","e","n","t","-","s","c","h","e","m","a",".","y","a","m","l">>,
   EXISTING_COMPONENT_PATH |-> Undefined, SOURCE_REPO_PATH |-> <<"r","e","p","o">>]

\* Before a call grepInSrc(pattern, maxMatches), on any tree, with a pattern
\* of GREP_PATTERNS and a small maxMatches or none
GrepInit ==
  /\ ValidatorOff
  /\ env = SetEnvironment
  /\ repo \in {[exists |-> TRUE, tree |-> t] : t \in RepoTrees}
  /\ schemaFile = "file"
  /\ existingFile = FALSE
  /\ step = "grep"
  /\ prompt = Undefined
  /\ apiCalls = 0
  /\ yamlOutput = Undefined
  /\ componentOutput = Undefined
  /\ status = 0
  /\ pattern \in {GREP_PATTERNS[i].pattern : i \in 1..Len(GREP_PATTERNS)}
  /\ maxMatches \in {Given(n) : n \in 1..MaxLimit} \cup {NotGiven}
  /\ matches = Undefined

\* const matches = grepInSrc(pattern, maxMatches)
GrepCall ==
  /\ step = "grep"
  /\ matches' = grepInSrc(repo.tree, pattern, maxMatches)
  /\ step' = "returned"
  /\ UNCHANGED <<validatorVars, env, repo, schemaFile, existingFile, prompt, apiCalls,
                 yamlOutput, componentOutput, status, pattern, maxMatches>>

GrepNext ==
  \/ GrepCall

SpecGrep == GrepInit /\ [][GrepNext]_vars

\* The files walk reads, in the order it reaches them: below src, below no
\* directory named node_modules, with a name that ends in .ts or .js
WalkedFiles(t) ==
  SelectSeq([i \in RepoNodeIds |-> i],
            LAMBDA n : /\ n \in DOMAIN t
                       /\ StartsWith(RepoPaths[n], <<"s","r","c","/">>)
                       /\ ~Includes(RepoPaths[n], <<"/","n","o","d","e","_","m","o","d","u","l","e","s","/">>)
                       /\ (EndsWith(RepoPaths[n], <<".","t","s">>) \/ EndsWith(RepoPaths[n], <<".","j","s">>)))

\* The lines of the walked files that match the pattern (hold one of its
\* alternatives), file by file and in line order
MatchingLines(t, alternatives) ==
  Flatten([k \in 1..Len(WalkedFiles(t)) |->
    LET n == WalkedFiles(t)[k]
        lines == IF t[n].readable THEN SplitLines(t[n].content) ELSE <<>>
    IN  SelectSeq([i \in 1..Len(lines) |-> [file |-> RepoPaths[n], line |-> i]],
                  LAMBDA e : \E a \in 1..Len(alternatives) :
                               Includes(lines[e.line], alternatives[a]))])

\* C23: a call of grepInSrc that returns gives back at most maxMatches
\* entries (10 when maxMatches is undefined), and they are the matching
\* lines of the walked files, file by file and in line order, up to that
\* limit: no matching line before the limit is left out, two consecutive
\* matching lines are both there.
C23_EveryMatchingLineReported ==
  (step = "returned" /\ ~matches.threw) =>
    LET max == IF maxMatches.given THEN maxMatches.value ELSE DefaultMaxMatches
        expected == MatchingLines(repo.tree, pattern)
        count == IF Len(expected) < max THEN Len(expected) ELSE max
    IN  /\ Len(matches.results) <= max
        /\ [j \in 1..Len(matches.results) |->
              [file |-> matches.results[j].file, line |-> matches.results[j].line]]
             = SubSeq(expected, 1, count)

\* The first half of C23 alone
AtMostMaxMatches ==
  (step = "returned" /\ ~matches.threw) =>
    Len(matches.results) <= (IF maxMatches.given THEN maxMatches.value ELSE DefaultMaxMatches)

(***************************************************************************)
(* architecture-extractor.mjs: reading the source repository               *)
(***************************************************************************)

\* Array.prototype.join on the newline character
RECURSIVE JoinLines(_)
JoinLines(lines) ==
  IF lines = <<>> THEN <<>>
  ELSE IF Len(lines) = 1 THEN lines[1]
  ELSE lines[1] \o <<"\n">> \o JoinLines(Tail(lines))

\* The length beyond which readFileIfExists truncates
TruncateLength == 8000

\* maxLines of README.md
ReadmeMaxLines == 100

\* maxLines of the files of SCAN_DIRS
ScanDirMaxLines == 80

\* FILE_PRIORITIES; maxLines 0 where the entry has none
FILE_PRIORITIES ==
  << [path |-> <<"p","a","c","k","a","g","e",".","j","s","o","n">>, maxLines |-> 0],
     [path |-> <<"C","L","A","U","D","E",".","m","d">>, maxLines |-> 0],
     [path |-> <<"R","E","A","D","M","E",".","m","d">>, maxLines |-> ReadmeMaxLines],
     [path |-> <<"t","s","c","o","n","f","i","g",".","j","s","o","n">>, maxLines |-> 0],
     [path |-> <<"i","n","f","r","a",".","c","o","n","t","r","a","c","t","s",".","y","a","m","l">>, maxLines |-> 0],
     [path |-> <<".","e","n","v",".","e","x","a","m","p","l","e">>, maxLines |-> 0],
     [path |-> <<"s","r","c","/","h","a","n","d","l","e","r",".","t","s">>, maxLines |-> 0],
     [path |-> <<"s","r","c","/","i","n","d","e","x",".","t","s">>, maxLines |-> 0] >>

SCAN_DIRS == <<<<"s","r","c","/","h","a","n","d","l","e","r","s">>, <<"s","r","c","/","t","o","o","l","s">>, <<"s","r","c","/","c","o","m","m","a","n","d","s">>>>

\* readFileIfExists(filePath, maxLines) on the tree t: [threw, content], with
\* content undefined for null; a maxLines of 0 (or none) keeps every line.
readFileIfExists(t, filePath, lineLimit) ==
  LET n == RepoLookup(t, filePath)
  IN  IF n = 0 THEN [threw |-> FALSE, content |-> Undefined]
      ELSE IF RepoNodes[n].kind = "dir" \/ ~t[n].readable
      THEN [threw |-> TRUE, content |-> Undefined]
      ELSE LET whole == t[n].content
               lines == SplitLines(whole)
               sliced == IF lineLimit = 0 THEN whole
                         ELSE JoinLines(SubSeq(lines, 1,
                                IF Len(lines) < lineLimit THEN Len(lines) ELSE lineLimit))
           IN  [threw |-> FALSE,
                content |-> IF Len(sliced) > TruncateLength
                            THEN SubSeq(sliced, 1, TruncateLength) \o <<"\n",".",".","."," ","(","t","r","u","n","c","a","t","e","d",")">>
                            ELSE sliced]

\* listDirFiles(dirPath) on the tree t
listDirFiles(t, dirPath) ==
  LET n == RepoLookup(t, dirPath)
  IN  IF n = 0 \/ RepoNodes[n].kind # "dir" THEN <<>>
      ELSE LET names == SelectSeq([i \in 1..Len(RepoReadDir(t, n)) |->
                                     RepoNodes[RepoReadDir(t, n)[i]].name],
                                  LAMBDA f : EndsWith(f, <<".","t","s">>) \/ EndsWith(f, <<".","j","s">>))
           IN  [i \in 1..Len(names) |-> JoinPath(dirPath, names[i])]

\* Steps 3 and 4 of main: the files of FILE_PRIORITIES, then those of
\* SCAN_DIRS, each read by readFileIfExists; [threw, sections], a section
\* for every content that is not empty.
GatherFiles(t) ==
  LET scanned == Flatten([d \in 1..Len(SCAN_DIRS) |-> listDirFiles(t, SCAN_DIRS[d])])
      wanted == [i \in 1..Len(FILE_PRIORITIES) |-> FILE_PRIORITIES[i]]
                \o [i \in 1..Len(scanned) |-> [path |-> scanned[i], maxLines |-> ScanDirMaxLines]]
      reads == [i \in 1..Len(wanted) |-> readFileIfExists(t, wanted[i].path, wanted[i].maxLines)]
  IN  [threw |-> \E i \in 1..Len(reads) : reads[i].threw,
       sections |->
         Flatten([i \in 1..Len(reads) |->
           IF reads[i].content # Undefined /\ reads[i].content # <<>>
           THEN <<[path |-> wanted[i].path, content |-> reads[i].content]>>
           ELSE <<>>])]

\* Step 5 of main: grepInSrc for every entry of GREP_PATTERNS; [threw,
\* sections], a section for every pattern with a match.
GatherGrep(t) ==
  LET calls == [i \in 1..Len(GREP_PATTERNS) |->
                  grepInSrc(t, GREP_PATTERNS[i].pattern, GREP_PATTERNS[i].maxMatches)]
  IN  [threw |-> \E i \in 1..Len(calls) : calls[i].threw,
       sections |->
         Flatten([i \in 1..Len(calls) |->
           IF Len(calls[i].results) > 0
           THEN <<[label |-> GREP_PATTERNS[i].label, matches |-> calls[i].results]>>
           ELSE <<>>])]

(***************************************************************************)
(* architecture-extractor.mjs: the model output                            *)
(***************************************************************************)

\* Texts the model may return
ValidYaml == <<"c","o","m","p","o","n","e","n","t",":","\n"," "," ","i","d",":"," ","a","p","p","-","c","o","d","e","-","r","e","v","i","e","w","\n"," "," ","n","a","m","e",":"," ","C","o","d","e"," ","R","e","v","i","e","w","\n"," "," ","t","y","p","e",":"," ","l","a","m","b","d","a">>

NoTypeYaml == <<"c","o","m","p","o","n","e","n","t",":","\n"," "," ","i","d",":"," ","a","p","p","-","c","o","d","e","-","r","e","v","i","e","w","\n"," "," ","n","a","m","e",":"," ","C","o","d","e"," ","R","e","v","i","e","w">>

EmptyIdYaml == <<"c","o","m","p","o","n","e","n","t",":","\n"," "," ","i","d",":"," ","'","'","\n"," "," ","n","a","m","e",":"," ","C","o","d","e"," ","R","e","v","i","e","w","\n"," "," ","t","y","p","e",":"," ","l","a","m","b","d","a">>

NoComponentYaml == <<"c","o","m","p","o","n","e","n","t","s",":","\n"," "," ","-"," ","i","d",":"," ","a","p","p","-","c","o","d","e","-","r","e","v","i","e","w">>

ScalarComponentYaml == <<"c","o","m","p","o","n","e","n","t",":"," ","a","p","p","-","c","o","d","e","-","r","e","v","i","e","w">>

NullComponentYaml == <<"c","o","m","p","o","n","e","n","t",":">>

ProseText == <<"I"," ","c","o","u","l","d"," ","n","o","t"," ","a","n","a","l","y","z","e"," ","t","h","i","s"," ","r","e","p","o","s","i","t","o","r","y",".">>

BrokenYaml == <<"c","o","m","p","o","n","e","n","t",":"," ","[","i","d",":"," ","a","p","p">>

\* The texts of a response: as asked for, within markdown fences, with
\* white space around them, or empty
ResponseTexts ==
  {ValidYaml, NoTypeYaml, EmptyIdYaml, NoComponentYaml, ScalarComponentYaml,
   NullComponentYaml, ProseText, BrokenYaml, <<>>,
   <<BackTick,BackTick,BackTick,"y","a","m","l","\n">> \o ValidYaml \o <<"\n",BackTick,BackTick,BackTick>>,
   <<BackTick,BackTick,BackTick,"\n">> \o NoTypeYaml \o <<"\n",BackTick,BackTick,BackTick>>,
   <<BackTick,BackTick,BackTick,"y","a","m","l","\n">> \o BrokenYaml \o <<BackTick,BackTick,BackTick>>,
   <<"\n">> \o ValidYaml \o <<"\n"," "," ">>,
   <<" ",BackTick,BackTick,BackTick,"\n">> \o EmptyIdYaml \o <<"\n",BackTick,BackTick,BackTick,"\n">>}

\* What client.messages.create may come to: the constructor of the client
\* throws, the call rejects, the response has no content block, or it has a text
ApiOutcomes ==
  {[kind |-> "no client", text |-> <<>>], [kind |-> "rejected", text |-> <<>>],
   [kind |-> "no content", text |-> <<>>]}
  \cup {[kind |-> "text", text |-> x] : x \in ResponseTexts}

Fence == <<BackTick,BackTick,BackTick>>

\* replace(/^```(?:yaml)?\n?/, "") on a text that starts with the fence
StripOpeningFence(text) ==
  LET a == SubSeq(text, Len(Fence) + 1, Len(text))
      b == IF StartsWith(a, <<"y","a","m","l">>) THEN SubSeq(a, 5, Len(a)) ELSE a
  IN  IF StartsWith(b, <<"\n">>) THEN SubSeq(b, 2, Len(b)) ELSE b

\* replace(/\n?```$/, "")
StripClosingFence(text) ==
  IF ~EndsWith(text, Fence) THEN text
  ELSE LET a == SubSeq(text, 1, Len(text) - Len(Fence))
       IN  IF EndsWith(a, <<"\n">>) THEN SubSeq(a, 1, Len(a) - 1) ELSE a

\* Lines 240-247: trim, then strip the markdown fences if the text starts
\* with one
StripFences(text) ==
  LET trimmed == Trim(text)
  IN  IF StartsWith(trimmed, Fence) THEN StripClosingFence(StripOpeningFence(trimmed))
      ELSE trimmed

\* A parsed YAML value: t is its type, component its property component
\* (undefined on a value without one), itself with a type and its
\* properties id, name and type
NoFields(t) == [t |-> t, id |-> Undefined, name |-> Undefined, type |-> Undefined]

Component(id, name, type) == [t |-> "object", id |-> id, name |-> name, type |-> type]

Parsed(t, component) == [threw |-> FALSE, t |-> t, component |-> component]

YamlException == [threw |-> TRUE, t |-> "undefined", component |-> NoFields("undefined")]

\* yaml.load on the texts of the model
YamlLoad(text) ==
  CASE text = ValidYaml ->
         Parsed("object", Component(<<"a","p","p","-","c","o","d","e","-","r","e","v","i","e","w">>, <<"C","o","d","e"," ","R","e","v","i","e","w">>, <<"l","a","m","b","d","a">>))
    [] text = NoTypeYaml ->
         Parsed("object", Component(<<"a","p","p","-","c","o","d","e","-","r","e","v","i","e","w">>, <<"C","o","d","e"," ","R","e","v","i","e","w">>, Undefined))
    [] text = EmptyIdYaml ->
         Parsed("object", Component(<<>>, <<"C","o","d","e"," ","R","e","v","i","e","w">>, <<"l","a","m","b","d","a">>))
    [] text = NoComponentYaml -> Parsed("object", NoFields("undefined"))
    [] text = ScalarComponentYaml -> Parsed("object", NoFields("string"))
    [] text = NullComponentYaml -> Parsed("object", NoFields("null"))
    [] text = ProseText -> Parsed("string", NoFields("undefined"))
    [] text = <<>> -> Parsed("undefined", NoFields("undefined"))
    [] OTHER -> YamlException

\* A validation that asks for the component key and its id only.
IsValidComponent_IdOnly(parsed) ==
  /\ parsed.t \in {"object", "string"}
  /\ parsed.component.t \in {"object", "string"}
  /\ Truthy(parsed.component.id)

\* Lines 252-257: parsed and parsed.component are truthy, and so are the id,
\* the name and the type of the component.
IsValidComponent(parsed) ==
  /\ parsed.t \in {"object", "string"}
  /\ parsed.component.t \in {"object", "string"}
  /\ Truthy(parsed.component.id)
  /\ Truthy(parsed.component.name)
  /\ Truthy(parsed.component.type)

\* new Date().toISOString() at the time of writing
GeneratedAt == <<"2026-01-01T00:00:00.000Z">>

\* The header comment of component-output.yaml
Header(repoName) ==
  <<"#"," ","C","o","m","p","o","n","e","n","t",":"," ">> \o repoName \o <<"\n","#"," ","G","e","n","e","r","a","t","e","d"," ","b","y"," ","a","r","c","h","i","t","e","c","t","u","r","e","-","e","x","t","r","a","c","t","o","r"," ","(","P","R","O","C","-","0","0","8"," ","P","h","a","s","e"," ","4",")","\n","#"," ","G","e","n","e","r","a","t","e","d"," ","a","t",":"," ">> \o GeneratedAt \o <<"\n","#"," ","S","c","h","e","m","a",":"," ","c","o","m","p","o","n","e","n","t","-","s","c","h","e","m","a",".","y","a","m","l"," ","v","1",".","0",".","0","\n","#","\n","#"," ","H","u","m","a","n","-","c","u","r","a","t","e","d"," ","f","i","e","l","d","s"," ","(","r","e","s","p","o","n","s","i","b","i","l","i","t","i","e","s",","," ","d","e","s","c","r","i","p","t","i","o","n","s",")"," ","a","r","e"," ","p","r","e","s","e","r","v","e","d"," ","o","n"," ","u","p","d","a","t","e",".","\n","#"," ","A","u","t","o","-","e","x","t","r","a","c","t","e","d"," ","f","i","e","l","d","s"," ","(","d","e","p","e","n","d","e","n","c","i","e","s",","," ","e","n","t","r","y","p","o","i","n","t","s",")"," ","a","r","e"," ","r","e","f","r","e","s","h","e","d"," ","f","r","o","m"," ","c","o","d","e",".","\n","\n">>

(***************************************************************************)
(* architecture-extractor.mjs: one run                                     *)
(***************************************************************************)

\* console.error and process.exit(1): of the checks of the environment, of
\* the catch block of the validation, and of main().catch
ExitWithError ==
  /\ step' = "exited"
  /\ status' = 1

\* Lines 21-38: REPO_NAME and SCHEMA_PATH are required, and the directory
\* SOURCE_REPO_PATH (the current directory when it is not set) has to exist.
CheckEnvironment ==
  /\ step = "start"
  /\ IF ~Truthy(env.REPO_NAME) \/ ~Truthy(env.SCHEMA_PATH) \/ ~repo.exists
     THEN ExitWithError
     ELSE step' = "main" /\ UNCHANGED status
  /\ UNCHANGED <<validatorVars, env, repo, schemaFile, existingFile, prompt, apiCalls,
                 yamlOutput, componentOutput, pattern, maxMatches, matches>>

\* Lines 145-228 of main: read the schema and the existing component, gather
\* the files, grep, build the prompt.  readFileSync throws on a schema path
\* that names a directory and on a file it cannot read; main().catch exits.
BuildPrompt ==
  /\ step = "main"
  /\ LET files == GatherFiles(repo.tree)
         grep == GatherGrep(repo.tree)
     IN  IF schemaFile = "directory" \/ files.threw \/ grep.threw
         THEN ExitWithError /\ UNCHANGED prompt
         ELSE /\ prompt' = [repoName |-> env.REPO_NAME,
                            schemaFound |-> schemaFile = "file",
                            existingComponent |->
                              Truthy(env.EXISTING_COMPONENT_PATH) /\ existingFile,
                            fileContents |-> files.sections,
                            grepResults |-> grep.sections]
              /\ step' = "call"
              /\ UNCHANGED status
  /\ UNCHANGED <<validatorVars, env, repo, schemaFile, existingFile, apiCalls,
                 yamlOutput, componentOutput, pattern, maxMatches, matches>>

\* Lines 230-247: the one call of the API; its text, trimmed and without
\* fences, is yamlOutput.  A call that rejects and a response without a
\* content block end in main().catch.
CallModel ==
  /\ step = "call"
  /\ \E outcome \in ApiOutcomes :
       /\ apiCalls' = IF outcome.kind = "no client" THEN apiCalls ELSE apiCalls + 1
       /\ IF outcome.kind = "text"
          THEN /\ yamlOutput' = StripFences(outcome.text)
               /\ step' = "validate"
               /\ UNCHANGED status
          ELSE ExitWithError /\ UNCHANGED yamlOutput
  /\ UNCHANGED <<validatorVars, env, repo, schemaFile, existingFile, prompt,
                 componentOutput, pattern, maxMatches, matches>>

\* Lines 249-267: yaml.load and the checks of the component; the catch block
\* exits with code 1.
ValidateOutput ==
  /\ step = "validate"
  /\ LET parsed == YamlLoad(yamlOutput)
     IN  IF parsed.threw \/ ~IsValidComponent(parsed)
         THEN ExitWithError
         ELSE step' = "write" /\ UNCHANGED status
  /\ UNCHANGED <<validatorVars, env, repo, schemaFile, existingFile, prompt, apiCalls,
                 yamlOutput, componentOutput, pattern, maxMatches, matches>>

\* Lines 269-283: write component-output.yaml; main returns and the process
\* ends with code 0.
WriteOutput ==
  /\ step = "write"
  /\ componentOutput' = Header(env.REPO_NAME) \o yamlOutput \o <<"\n">>
  /\ step' = "exited"
  /\ status' = 0
  /\ UNCHANGED <<validatorVars, env, repo, schemaFile, existingFile, prompt, apiCalls,
                 yamlOutput, pattern, maxMatches, matches>>

\* The values of an environment variable: not set, empty, set
EnvValues(text) == {Undefined, <<>>, text}

ExtractInit ==
  /\ ValidatorOff
  /\ env \in {[REPO_NAME |-> r, SCHEMA_PATH |-> s, EXISTING_COMPONENT_PATH |-> e,
               SOURCE_REPO_PATH |-> p] :
                r \in EnvValues(<<"a","p","p","-","c","o","d","e","-","r","e","v","i","e","w">>),
                s \in EnvValues(<<"s","c","h","e","m","a","/","c","o","m","p","o","n","e","n","t","-","s","c","h","e","m","a",".","y","a","m","l">>),
                e \in {Undefined, <<"c","o","m","p","o","n","e","n","t","s","/","a","p","p","-","c","o","d","e","-","r","e","v","i","e","w",".","y","a","m","l">>},
                p \in EnvValues(<<"r","e","p","o">>)}
  /\ repo \in {[exists |-> FALSE, tree |-> <<>>]}
              \cup {[exists |-> TRUE, tree |-> t] : t \in RepoTrees}
  /\ (~Truthy(env.SOURCE_REPO_PATH)) => repo.exists
  /\ schemaFile \in {"absent", "file", "directory"}
  /\ (~Truthy(env.SCHEMA_PATH)) => schemaFile = "absent"
  /\ existingFile \in BOOLEAN
  /\ (~Truthy(env.EXISTING_COMPONENT_PATH)) => ~existingFile
  /\ step = "start"
  /\ prompt = Undefined
  /\ apiCalls = 0
  /\ yamlOutput = Undefined
  /\ componentOutput = Undefined
  /\ status = 0
  /\ pattern = Undefined
  /\ maxMatches = Undefined
  /\ matches = Undefined

ExtractNext ==
  \/ CheckEnvironment
  \/ BuildPrompt
  \/ CallModel
  \/ ValidateOutput
  \/ WriteOutput

SpecExtract == ExtractInit /\ [][ExtractNext]_vars

(***************************************************************************)
(* Properties of the architecture extractor                                *)
(***************************************************************************)

\* component-output.yaml has been written
Written == componentOutput # Undefined

\* The text parses as YAML, to a mapping whose key component is a mapping
\* that has an id, a name and a type
ParsesWithComponent(text) ==
  LET parsed == YamlLoad(text)
  IN  /\ ~parsed.threw
      /\ parsed.t = "object"
      /\ parsed.component.t = "object"
      /\ parsed.component.id # Undefined
      /\ parsed.component.name # Undefined
      /\ parsed.component.type # Undefined

\* C22: component-output.yaml is written only in the step after the
\* validation, of a model output that parsed as YAML with a component that
\* has id, name and type, and after the API was called; a run whose model
\* output does not parse so has exited with code 1 once it has exited, and
\* its file is never written; the API is called only in a run where REPO_NAME
\* and SCHEMA_PATH are set and SOURCE_REPO_PATH exists.
C22_WrittenOnlyAfterValidation ==
  /\ [](/\ Written => (yamlOutput # Undefined /\ ParsesWithComponent(yamlOutput))
        /\ (yamlOutput # Undefined /\ ~ParsesWithComponent(yamlOutput))
             => (~Written /\ (step = "exited" => status = 1))
        /\ apiCalls > 0
             => (Truthy(env.REPO_NAME) /\ Truthy(env.SCHEMA_PATH) /\ repo.exists))
  /\ [][componentOutput' # componentOutput
          => (step = "write" /\ apiCalls > 0 /\ ParsesWithComponent(yamlOutput))]_vars

\* The model answered with the component within markdown fences or as it
\* is: the run has called the API once, written the file and exited with 0.
C22_Witness ==
  /\ step = "exited"
  /\ status = 0
  /\ apiCalls = 1
  /\ yamlOutput = ValidYaml
  /\ componentOutput = Header(env.REPO_NAME) \o ValidYaml \o <<"\n">>

====
